---------------------------- MODULE Spec2Model ----------------------------
(***************************************************************************)
(* A model of the Bilibili client (src/bilibili_client.py) and of the MCP  *)
(* tool wrapper (src/bilibili_mcp_server.py).                              *)
(*                                                                         *)
(* One client object serves one call.  Every outbound HTTP request, with   *)
(* the response the platform gives to it, is one step; the reply           *)
(* coroutines that gather runs side by side take a step from each await    *)
(* to the next.  The platform's answer is chosen by the environment.       *)
(* Python values are tagged records                                        *)
(* [t |-> type, v |-> payload]; Python strings that the code inspects      *)
(* character by character are sequences of one-character tokens; messages  *)
(* are sequences of text fragments, concatenated with \o.                  *)
(***************************************************************************)
EXTENDS Integers, Sequences, FiniteSets, TLC

(***************************************************************************)
(* Bounds of the model (inputs and platform content).                      *)
(***************************************************************************)
MaxTopk == 4
MaxTotal == 4
MaxThreads == 3
MaxSrvPage == 2
MaxReplyCount == 2
MaxItems == 3
MaxCookies == 2

(***************************************************************************)
(* Program constants.                                                      *)
(***************************************************************************)
AsyncPageSize == 50
FastPageSizeCap == 50
FastMaxPages == 3
SyncTopkCap == 100
AsyncMaxReplies == 10
SyncMaxReplies == 5
SubPageSizeAsync == 10
SubPageSizeFastCap == 20
MockMax == 5
BvidBodyLen == 10

(***************************************************************************)
(* Python values.                                                          *)
(***************************************************************************)
PyNone == [t |-> "None"]
PyStr(s) == [t |-> "str", v |-> s]
PyInt(n) == [t |-> "int", v |-> n]
PyList(s) == [t |-> "list", v |-> s]
PyDict(d) == [t |-> "dict", v |-> d]

\* Python truthiness: None, "", 0, [] and {} are false.
Truthy(x) ==
    CASE x.t = "None" -> FALSE
      [] x.t = "str" -> x.v # <<>>
      [] x.t = "int" -> x.v # 0
      [] x.t = "list" -> x.v # <<>>
      [] x.t = "dict" -> DOMAIN x.v # {}
      [] OTHER -> TRUE

Min(a, b) == IF a <= b THEN a ELSE b
Max(a, b) == IF a >= b THEN a ELSE b

\* s[:n] of Python: the first n items, or all but the last -n when n < 0.
PySlicePrefix(s, n) ==
    IF n >= 0 THEN SubSeq(s, 1, Min(n, Len(s)))
    ELSE SubSeq(s, 1, Max(0, Len(s) + n))

\* {} of Python.
EmptyDict == [x \in {} |-> 0]

\* d.get(key, default) on a dict modelled as a function on its keys.
DictGet(d, key, default) == IF key \in DOMAIN d THEN d[key] ELSE default

(***************************************************************************)
(* Results of a call: a returned value or a raised exception.              *)
(***************************************************************************)
Ret(v) == [k |-> "ret", v |-> v]
Raise(type, msg) == [k |-> "raise", type |-> type, msg |-> msg]
IsRaise(r) == r.k = "raise"


(***************************************************************************)
(* Characters and identifiers.  A string is a sequence of one-character    *)
(* tokens; "LF" stands for a newline, "sup2" for U+00B2 and "fw3" for      *)
(* U+FF13 (both digits for str.isdigit).                                    *)
(***************************************************************************)
AsciiDigits == {"0", "1", "2", "3", "4", "5", "6", "7", "8", "9"}
AsciiLetters ==
    {"a", "b", "c", "d", "e", "f", "g", "h", "i", "j", "k", "l", "m",
     "n", "o", "p", "q", "r", "s", "t", "u", "v", "w", "x", "y", "z",
     "A", "B", "C", "D", "E", "F", "G", "H", "I", "J", "K", "L", "M",
     "N", "O", "P", "Q", "R", "S", "T", "U", "V", "W", "X", "Y", "Z"}
AsciiAlnum == AsciiDigits \cup AsciiLetters
UnicodeDigits == AsciiDigits \cup {"sup2", "fw3"}

\* re.match(r'^BV[A-Za-z0-9]{10}$', s): '$' matches at the end of the string
\* and also just before a newline that ends the string.
MatchBvidPattern(s) ==
    /\ Len(s) >= 2 + BvidBodyLen
    /\ s[1] = "B"
    /\ s[2] = "V"
    /\ \A i \in 3..(2 + BvidBodyLen) : s[i] \in AsciiAlnum
    /\ \/ Len(s) = 2 + BvidBodyLen
       \/ Len(s) = 3 + BvidBodyLen /\ s[3 + BvidBodyLen] = "LF"

is_valid_bvid(bvid) ==
    IF ~Truthy(bvid) \/ bvid.t # "str" THEN FALSE ELSE MatchBvidPattern(bvid.v)

is_valid_cv_id(cv_id) ==
    IF ~Truthy(cv_id) \/ cv_id.t # "str" THEN FALSE
    ELSE \A i \in 1..Len(cv_id.v) : cv_id.v[i] \in UnicodeDigits

\* The identifier formats the platform defines: BV + 10 ASCII alphanumerics,
\* and a non-empty run of decimal digits.
WellFormedBvid(b) ==
    /\ b.t = "str"
    /\ Len(b.v) = 2 + BvidBodyLen
    /\ b.v[1] = "B" /\ b.v[2] = "V"
    /\ \A i \in 3..(2 + BvidBodyLen) : b.v[i] \in AsciiAlnum
WellFormedCvId(c) ==
    /\ c.t = "str"
    /\ c.v # <<>>
    /\ \A i \in 1..Len(c.v) : c.v[i] \in AsciiDigits

GoodBvid == <<"B", "V", "1", "x", "x", "4", "1", "1", "c", "7", "m", "D">>
BvidInputs ==
    { PyStr(GoodBvid),
      PyStr(SubSeq(GoodBvid, 1, 11)),
      PyStr(GoodBvid \o <<"9">>),
      PyStr(<<"A", "V">> \o SubSeq(GoodBvid, 3, 12)),
      PyStr(SubSeq(GoodBvid, 1, 11) \o <<"-">>),
      PyStr(<<>>),
      PyNone }
\* The same with an identifier that ends in a newline.
BvidInputsWithNewline == BvidInputs \cup { PyStr(GoodBvid \o <<"LF">>) }
\* Well-formed identifiers whose characters spell a status number.
BvidWith404 == <<"B", "V", "1", "x", "x", "4", "0", "4", "c", "7", "m", "D">>
BvidWith403 == <<"B", "V", "1", "x", "x", "4", "0", "3", "c", "7", "m", "D">>
VideoInfoBvidInputs == BvidInputsWithNewline \cup { PyStr(BvidWith404), PyStr(BvidWith403) }
CvIdInputs ==
    { PyStr(<<"1", "2", "4", "1", "1", "2", "5", "9">>),
      PyStr(<<"c", "v", "1", "2">>),
      PyStr(<<"1", "sup2">>),
      PyStr(<<>>),
      PyInt(12411259),
      PyNone }
\* get_danmaku does not validate the cid: one with a blank, and one with an
\* escape and a fragment mark.
CidInputs ==
    { PyNone, PyStr(<<>>), PyStr(<<"7", "7">>), PyStr(<<"7", " ", "7">>),
      PyStr(<<"%", "3", "7", "#", "7">>) }

(***************************************************************************)
(* Messages.  The fragments stand for the texts of the code:               *)
(*   cookies_required        '获取评论需要提供用户cookies'                 *)
(*   invalid_bvid            '无效的BV号格式'                              *)
(*   no_aid                  '无法获取视频AID: '                            *)
(*   net_failed              '网络请求失败: '                               *)
(*   rejected_412            '请求被拒绝 (412)'                             *)
(*   api_error               'API错误 '                                     *)
(* A fragment "<x>" is the text of the value x.                            *)
(***************************************************************************)
MsgCookiesRequired == <<"cookies_required">>
MsgInvalidBvidPlain == <<"invalid_bvid">>
MsgInvalidBvid == <<"invalid_bvid", ": ", "<bvid>", " must be BV + 10 chars">>
MsgInvalidCvId == <<"invalid_cv_id", ": ", "<cv_id>", " must be digits">>
MsgNoAid == <<"no_aid", ": ", "<bvid>">>
MsgVideoMissing == <<"video_missing", ": ", "<bvid>">>
MsgVideoDenied == <<"video_denied", ": ", "<bvid>">>
MsgVideoUnreachable == <<"video_missing_or_unreachable", ": ", "<bvid>">>
MsgVideoExtractFailed == <<"video_extraction_failed", ": ", "<bvid>">>
MsgArticleMissing == <<"article_missing", ": cv", "<cv_id>">>
MsgArticleDenied == <<"article_denied", ": cv", "<cv_id>">>
MsgArticleExtractFailed == <<"article_extraction_failed", ": cv", "<cv_id>">>
MsgNoSearchPage == <<"no_search_result_page">>
MsgNoCid == <<"no_cid">>
MsgUnknownError == <<"unknown_error">>
MsgCatchNonException ==
    <<"catching classes that do not inherit from BaseException is not allowed">>

\* The text of a message: its fragments one after the other.
RECURSIVE TextFrom(_, _)
TextFrom(msg, i) == IF i > Len(msg) THEN "" ELSE msg[i] \o TextFrom(msg, i + 1)
Text(msg) == CHOOSE text \in { TextFrom(m, 1) : m \in {msg} } : TRUE

\* "key in text" on two strings.
InText(text, key) ==
    \E i \in 1..(Len(text) - Len(key) + 1) : SubSeq(text, i, i + Len(key) - 1) = key

\* "key in error_msg": key occurs somewhere in the text of the message.
Contains(msg, key) == InText(Text(msg), key)

\* str(n) of an integer.
DigitChars == <<"0", "1", "2", "3", "4", "5", "6", "7", "8", "9">>
RECURSIVE NatText(_)
NatText(n) == IF n < 10 THEN DigitChars[n + 1] ELSE NatText(n \div 10) \o DigitChars[(n % 10) + 1]
IntText(n) == IF n < 0 THEN "-" \o NatText(-n) ELSE NatText(n)

\* str(x) of a value formatted into a message.
PyText(x) ==
    CASE x.t = "None" -> "None"
      [] x.t = "int" -> IntText(x.v)
      [] OTHER -> Text(x.v)

\* The characters of a text, one by one.
Char(s, i) == SubSeq(s, i, i)
Chars(s) == [i \in 1..Len(s) |-> Char(s, i)]
IsOneOf(c, chars) == \E i \in 1..Len(chars) : Char(chars, i) = c
StartsWith(s, prefix) == Len(s) >= Len(prefix) /\ SubSeq(s, 1, Len(prefix)) = prefix

\* The printable ASCII characters in the order of their codes: those of the
\* codes 32 to 95 and those of the codes 97 to 126.  The grave accent, code
\* 96, occurs in no text of the model.
AsciiBelowGrave ==
    " !\"#$%&'()*+,-./0123456789:;<=>?@ABCDEFGHIJKLMNOPQRSTUVWXYZ[\\]^_"
AsciiAboveGrave == "abcdefghijklmnopqrstuvwxyz{|}~"
IndexIn(c, chars) == CHOOSE i \in 1..Len(chars) : Char(chars, i) = c
CharCode(c) ==
    IF IsOneOf(c, AsciiBelowGrave) THEN 31 + IndexIn(c, AsciiBelowGrave)
    ELSE 96 + IndexIn(c, AsciiAboveGrave)
IsPrintableCode(n) == 32 <= n /\ n <= 126 /\ n # 96
CharOfCode(n) == IF n < 96 THEN Char(AsciiBelowGrave, n - 31) ELSE Char(AsciiAboveGrave, n - 96)

HexDigits == "0123456789ABCDEF"
LowerHexDigits == "0123456789abcdef"
IsHexDigit(c) == IsOneOf(c, HexDigits) \/ IsOneOf(c, LowerHexDigits)
HexValue(c) ==
    (CHOOSE i \in 1..Len(HexDigits) : Char(HexDigits, i) = c \/ Char(LowerHexDigits, i) = c) - 1
HexPair(n) == Char(HexDigits, (n \div 16) + 1) \o Char(HexDigits, (n % 16) + 1)

\* %XX of the UTF-8 bytes of a character.  A text is a sequence of
\* characters: a printable ASCII character stands for itself, "LF" for the
\* line feed, "sup2" for the superscript two and "fw3" for the full-width
\* three.
PercentEncoded(c) ==
    CASE c = "LF" -> "%0A"
      [] c = "sup2" -> "%C2%B2"
      [] c = "fw3" -> "%EF%BC%93"
      [] OTHER -> "%" \o HexPair(CharCode(c))

Unreserved == "ABCDEFGHIJKLMNOPQRSTUVWXYZabcdefghijklmnopqrstuvwxyz0123456789-._~"

\* urllib.parse.quote(s): everything but the unreserved characters and "/"
\* is percent-encoded.
quote(s) ==
    Text([i \in 1..Len(s) |->
            IF IsOneOf(s[i], Unreserved \o "/") THEN s[i] ELSE PercentEncoded(s[i])])

\* A value of params as the HTTP library puts it into the query string
\* (urlencode): a blank becomes "+", everything else but the unreserved
\* characters is percent-encoded.
quote_plus(s) ==
    Text([i \in 1..Len(s) |->
            IF s[i] = " " THEN "+"
            ELSE IF IsOneOf(s[i], Unreserved) THEN s[i] ELSE PercentEncoded(s[i])])

\* A text formatted into a URL is split as the HTTP library splits it: the
\* first "#" starts the fragment and, in a path, the first "?" before it
\* starts the query.  FirstIn is the position of the first c among the
\* first hi characters of s, hi + 1 when there is none.
FirstIn(s, c, hi) ==
    CHOOSE i \in 1..(hi + 1) :
        /\ i = hi + 1 \/ s[i] = c
        /\ \A k \in 1..(i - 1) : s[k] # c
FirstAt(s, c) == FirstIn(s, c, Len(s))

\* One component (path, query, fragment) of a URL, the characters lo..hi of
\* s, as the HTTP library sends it.  If every "%" of the component starts an
\* escape %XX the escapes are kept, in upper case, and those of unreserved
\* characters are decoded; otherwise every "%" is encoded and what looks
\* like an escape is put in upper case.  A character the component may not
\* hold is percent-encoded.  Dot segments of a path are not among the inputs.
ComponentChars == Unreserved \o "!$&'()*+,;=:@/?"
IsEscapeAt(s, i, hi) ==
    s[i] = "%" /\ i + 2 <= hi /\ IsHexDigit(s[i + 1]) /\ IsHexDigit(s[i + 2])
HasOnlyEscapes(s, lo, hi) == \A i \in lo..hi : s[i] = "%" => IsEscapeAt(s, i, hi)
InEscape(s, i, lo, hi) == \E k \in {i - 2, i - 1} : k >= lo /\ IsEscapeAt(s, k, hi)
EscapeCode(s, i) == 16 * HexValue(s[i + 1]) + HexValue(s[i + 2])
EncodedAt(s, i, lo, hi) ==
    IF InEscape(s, i, lo, hi) THEN ""
    ELSE IF IsEscapeAt(s, i, hi)
    THEN IF ~HasOnlyEscapes(s, lo, hi) THEN "%25" \o HexPair(EscapeCode(s, i))
         ELSE IF /\ IsPrintableCode(EscapeCode(s, i))
                 /\ IsOneOf(CharOfCode(EscapeCode(s, i)), Unreserved)
         THEN CharOfCode(EscapeCode(s, i))
         ELSE "%" \o HexPair(EscapeCode(s, i))
    ELSE IF IsOneOf(s[i], ComponentChars) THEN s[i] ELSE PercentEncoded(s[i])
EncodeComponent(s, lo, hi) ==
    Text([i \in 1..(hi - lo + 1) |-> EncodedAt(s, lo + i - 1, lo, hi)])

\* What a text formatted into the end of a URL adds to its query, to its
\* path (with a query of its own, if it has one) and to its fragment; an
\* empty query and an empty fragment are dropped.
QueryOf(s) == EncodeComponent(s, 1, FirstAt(s, "#") - 1)
PathOf(s) ==
    LET at == FirstAt(s, "#")
        mark == FirstIn(s, "?", at - 1)
    IN EncodeComponent(s, 1, mark - 1)
       \o (IF mark >= at - 1 THEN "" ELSE "?" \o EncodeComponent(s, mark + 1, at - 1))
FragmentOf(s) ==
    IF FirstAt(s, "#") >= Len(s) THEN ""
    ELSE "#" \o EncodeComponent(s, FirstAt(s, "#") + 1, Len(s))

\* The keyword of a search.
Keyword == <<"k", " ", "1">>

\* A URL as it is sent: the host, the path with the query, the fragment.
\* The error texts name the whole URL or its host and path.
Url(host, path, fragment) == [host |-> host, path |-> path, fragment |-> fragment]
UrlText(url) == "https://" \o url.host \o url.path \o url.fragment
UrlHost(url) == url.host
UrlPath(url) == url.path

\* The URLs of the requests.  An identifier is formatted into the text of
\* the URL; the keyword of the API search and the numbers of the reply
\* endpoints are params, and an aid is an integer, whose digits need no
\* encoding.
ViewUrl(bvid) ==
    Url("api.bilibili.com", "/x/web-interface/view?bvid=" \o QueryOf(bvid.v), FragmentOf(bvid.v))
VideoPageUrl(bvid) == Url("www.bilibili.com", "/video/" \o PathOf(bvid.v), FragmentOf(bvid.v))
DanmakuUrl(c) == Url("api.bilibili.com", "/x/v1/dm/list.so?oid=" \o QueryOf(c.v), FragmentOf(c.v))
ArticleUrl(cv_id) == Url("www.bilibili.com", "/read/cv" \o PathOf(cv_id.v), FragmentOf(cv_id.v))
SearchApiUrl ==
    Url("api.bilibili.com",
        "/x/web-interface/search/all/v2?keyword=" \o quote_plus(Keyword) \o "&page=1&page_size=20",
        "")
SearchPageUrl ==
    Url("search.bilibili.com", "/all?keyword=" \o QueryOf(Chars(quote(Keyword))),
        FragmentOf(Chars(quote(Keyword))))
ReplyMainUrl(a, pn, ps) ==
    Url("api.bilibili.com",
        "/x/v2/reply/main?type=1&oid=" \o PyText(a) \o "&mode=3&plat=1&pn=" \o IntText(pn)
            \o "&ps=" \o IntText(ps),
        "")
ReplyReplyUrl(a, rpid, pn, ps) ==
    Url("api.bilibili.com",
        "/x/v2/reply/reply?type=1&oid=" \o PyText(a) \o "&root=" \o IntText(rpid)
            \o "&pn=" \o IntText(pn) \o "&ps=" \o IntText(ps),
        "")

\* The reason phrase of a status (http.client.responses), which is what the
\* platform sends with it.
StatusReason(status) ==
    CASE status = 400 -> "Bad Request"
      [] status = 401 -> "Unauthorized"
      [] status = 402 -> "Payment Required"
      [] status = 403 -> "Forbidden"
      [] status = 404 -> "Not Found"
      [] status = 405 -> "Method Not Allowed"
      [] status = 406 -> "Not Acceptable"
      [] status = 407 -> "Proxy Authentication Required"
      [] status = 408 -> "Request Timeout"
      [] status = 409 -> "Conflict"
      [] status = 410 -> "Gone"
      [] status = 411 -> "Length Required"
      [] status = 412 -> "Precondition Failed"
      [] status = 413 -> "Request Entity Too Large"
      [] status = 414 -> "Request-URI Too Long"
      [] status = 415 -> "Unsupported Media Type"
      [] status = 416 -> "Requested Range Not Satisfiable"
      [] status = 417 -> "Expectation Failed"
      [] status = 418 -> "I'm a Teapot"
      [] status = 421 -> "Misdirected Request"
      [] status = 422 -> "Unprocessable Entity"
      [] status = 423 -> "Locked"
      [] status = 424 -> "Failed Dependency"
      [] status = 425 -> "Too Early"
      [] status = 426 -> "Upgrade Required"
      [] status = 428 -> "Precondition Required"
      [] status = 429 -> "Too Many Requests"
      [] status = 431 -> "Request Header Fields Too Large"
      [] status = 451 -> "Unavailable For Legal Reasons"
      [] status = 500 -> "Internal Server Error"
      [] status = 501 -> "Not Implemented"
      [] status = 502 -> "Bad Gateway"
      [] status = 503 -> "Service Unavailable"
      [] status = 504 -> "Gateway Timeout"
      [] status = 505 -> "HTTP Version Not Supported"
      [] status = 506 -> "Variant Also Negotiates"
      [] status = 507 -> "Insufficient Storage"
      [] status = 508 -> "Loop Detected"
      [] status = 510 -> "Not Extended"
      [] status = 511 -> "Network Authentication Required"
      [] OTHER -> ""

\* raise_for_status() of requests raises for 400 <= status < 600.
IsHttpError(status) == 400 <= status /\ status < 600

\* str(e) of the HTTPError raised by raise_for_status() of requests.
HttpErrorText(status, url) ==
    << IntText(status),
       IF status < 500 THEN " Client Error: " ELSE " Server Error: ",
       StatusReason(status), " for url: ", UrlText(url) >>

\* What stands for the address in a refused connection whose text names
\* none.
NoAddress == ""

\* str(e) of the exception session.get raises when no response arrives:
\* a read timeout, a connection the peer closed, and a connection that
\* could not be made (refused; a connect timeout and a failed name lookup
\* have the same form), whose text names the path of the URL and the
\* connection: by the address of its object, resp.at, with urllib3 1.x, by
\* host and port with urllib3 2.x (resp.at is NoAddress).
NetErrorText(resp, url, timeout) ==
    CASE resp.net = "timeout" ->
           << "HTTPSConnectionPool(host='", UrlHost(url), "', port=443): Read timed out. ",
              "(read timeout=", IntText(timeout), ")" >>
      [] resp.net = "refused" ->
           IF resp.at = NoAddress
           THEN << "HTTPSConnectionPool(host='", UrlHost(url),
                   "', port=443): Max retries exceeded with url: ", UrlPath(url),
                   " (Caused by NewConnectionError(\"HTTPSConnection(host='", UrlHost(url),
                   "', port=443): Failed to establish a new connection: ",
                   "[Errno 111] Connection refused\"))" >>
           ELSE << "HTTPSConnectionPool(host='", UrlHost(url),
                   "', port=443): Max retries exceeded with url: ", UrlPath(url),
                   " (Caused by NewConnectionError('<urllib3.connection.HTTPSConnection object at ",
                   resp.at, ">: Failed to establish a new connection: ",
                   "[Errno 111] Connection refused'))" >>
      [] OTHER ->
           << "('Connection aborted.', ",
              "RemoteDisconnected('Remote end closed connection without response'))" >>

\* The class of that exception.
NetErrorClass(resp) == IF resp.net = "timeout" THEN "ReadTimeout" ELSE "ConnectionError"

\* repr() of a text without a double quote: in double quotes if it holds a
\* single one.
PyRepr(text) == IF InText(text, "'") THEN "\"" \o text \o "\"" ELSE "'" \o text \o "'"

\* str(e) of the ClientResponseError raised by raise_for_status() of aiohttp.
AioHttpErrorText(status, url) ==
    << IntText(status), ", message=", PyRepr(StatusReason(status)),
       ", url='", UrlText(url), "'" >>

\* The exception of aiohttp when no response arrives, class and text.
PeerAddress == "203.0.113.7"
AioNetError(resp, url) ==
    CASE resp.net = "timeout" -> [class |-> "TimeoutError", msg |-> <<>>]
      [] resp.net = "refused" ->
           [class |-> "ClientConnectorError",
            msg |-> << "Cannot connect to host ", UrlHost(url),
                       ":443 ssl:default [Connect call failed ('", PeerAddress, "', 443)]" >>]
      [] OTHER -> [class |-> "ServerDisconnectedError", msg |-> <<"Server disconnected">>]

\* response.json() of aiohttp on a body that is no JSON: the content type is
\* tested first, then the body is decoded.
IsJsonContentType(ctype) == StartsWith(ctype, "application/json")
AioJsonError(status, url, ctype) ==
    IF IsJsonContentType(ctype)
    THEN [class |-> "JSONDecodeError", msg |-> <<"Expecting value: line 1 column 1 (char 0)">>]
    ELSE [class |-> "ContentTypeError",
          msg |-> << IntText(status),
                     ", message='Attempt to decode JSON with unexpected mimetype: ", ctype,
                     "', url='", UrlText(url), "'" >>]

JsonErrorText == <<"Expecting value: line 1 column 1 (char 0)">>

(***************************************************************************)
(* ResponseFormatter.  An envelope is a function on the keys it carries;   *)
(* kwargs are merged over the base keys.                                   *)
(***************************************************************************)
\* ResponseFormatter.success storing "data or None".
ResponseFormatter_success_or_none(data, method) ==
    [success |-> TRUE, data |-> IF Truthy(data) THEN data ELSE PyNone, method |-> method]

ResponseFormatter_success(data, method) ==
    [success |-> TRUE, data |-> data, method |-> method]

\* ResponseFormatter.error without result.update(kwargs).
ResponseFormatter_error_no_kwargs(error_msg, kwargs) ==
    [success |-> FALSE, error |-> error_msg]

ResponseFormatter_error(error_msg, kwargs) ==
    kwargs @@ [success |-> FALSE, error |-> error_msg]

\* The keyword arguments data=[] and data=None.
EmptyListData == [data |-> PyList(<<>>)]
NoneData == [data |-> PyNone]

(***************************************************************************)
(* Raw responses of the platform, as the HTTP library hands them over.     *)
(***************************************************************************)
NetFailure(kind) == [net |-> kind]

\* A connection that could not be made; at is the address of the connection
\* object, which the text of the exception names with urllib3 1.x, and
\* NoAddress with urllib3 2.x, whose text names no address.  The address
\* differs from run to run and may spell a status number.
Refused(at) == [net |-> "refused", at |-> at]
PlainAddress == "0x7fd4957f3b90"
AddressWith404 == "0x7f94c6e40450"
AddressWith403 == "0x7f94c6d403d0"
NetFailures ==
    { NetFailure("timeout"), NetFailure("conn"), Refused(PlainAddress), Refused(NoAddress) }
\* The refused connections of a request whose caller searches the text of
\* the exception for a status number.
VideoInfoFailures == { Refused(AddressWith404), Refused(AddressWith403) }
HttpResponse(status, body) == [net |-> "http", status |-> status, body |-> body]
NotJson == [json |-> "invalid", ctype |-> "text/html"]
JsonList == [json |-> "list"]
JsonDict(d) == [json |-> "dict", d |-> d]

ErrorStatuses == {412, 404, 403, 500, 502}
ApiErrorCodes == {-404, -403, -400, -101, -102, -799, -1403}

\* Every answer that is not code 0, plus the answers of code 0 given in oks.
RawResponses(oks) ==
    NetFailures
    \cup { HttpResponse(s, NotJson) : s \in ErrorStatuses }
    \cup { HttpResponse(200, NotJson), HttpResponse(200, JsonList) }
    \cup { HttpResponse(200, JsonDict([code |-> PyInt(c), message |-> <<"platform says no">>])) :
             c \in ApiErrorCodes }
    \cup { HttpResponse(200, JsonDict([message |-> <<"no code">>])) }
    \cup { HttpResponse(200, JsonDict(d)) : d \in oks }

\* The answers to a page request of a comment endpoint: one failure for each
\* way the transport fails, and the page.
PageResponses(ok) ==
    { NetFailure("timeout"),
      HttpResponse(412, NotJson),
      HttpResponse(500, NotJson),
      HttpResponse(200, NotJson),
      HttpResponse(200, JsonDict([code |-> PyInt(-101), message |-> <<"platform says no">>])),
      HttpResponse(200, JsonDict(ok)) }

\* error_messages of _make_request.
FriendlySync(code) ==
    CASE code = PyInt(-404) -> <<"video missing or deleted">>
      [] code = PyInt(-403) -> <<"access denied, video may be private">>
      [] code = PyInt(-400) -> <<"bad request parameters">>
      [] OTHER -> <<>>

_make_request(url, resp, timeout) ==
    IF resp.net # "http"
    THEN Raise("BilibiliError", <<"net_failed", ": ">> \o NetErrorText(resp, url, timeout))
    ELSE IF resp.status = 412
    THEN Raise("BilibiliError", <<"rejected_412">>)
    ELSE IF IsHttpError(resp.status)
    THEN Raise("BilibiliError", <<"net_failed", ": ">> \o HttpErrorText(resp.status, url))
    ELSE IF resp.body.json = "invalid"
    THEN Raise("BilibiliError", <<"net_failed", ": ">> \o JsonErrorText)
    ELSE IF resp.body.json = "list"
    THEN Raise("AttributeError", <<"'list' object has no attribute 'get'">>)
    ELSE LET data == resp.body.d
             error_code == DictGet(data, "code", PyNone)
             error_message == DictGet(data, "message", MsgUnknownError)
         IN IF error_code # PyInt(0)
            THEN IF FriendlySync(error_code) # <<>>
                 THEN Raise("BilibiliError", FriendlySync(error_code))
                 ELSE Raise("BilibiliError",
                            <<"api_error", " (", PyText(error_code), "): ">> \o error_message)
            ELSE Ret(data)

\* error_messages of _make_request_async.
FriendlyAsync(code, message) ==
    CASE code = PyInt(-404) -> <<"video missing or deleted">>
      [] code = PyInt(-403) -> <<"access denied, video may be private">>
      [] code = PyInt(-400) -> <<"bad request parameters">>
      [] code = PyInt(-101) -> <<"not logged in">>
      [] code = PyInt(-102) -> <<"account banned">>
      [] OTHER -> message

\* The body of the try block of _make_request_async.
MakeRequestAsyncBody(url, resp) ==
    IF resp.net # "http"
    THEN Raise(AioNetError(resp, url).class, AioNetError(resp, url).msg)
    ELSE IF resp.status = 412
    THEN Raise("BilibiliError", <<"rejected_412">>)
    ELSE IF resp.status >= 400
    THEN Raise("ClientResponseError", AioHttpErrorText(resp.status, url))
    ELSE IF resp.body.json = "invalid"
    THEN Raise(AioJsonError(resp.status, url, resp.body.ctype).class,
               AioJsonError(resp.status, url, resp.body.ctype).msg)
    ELSE IF resp.body.json = "list"
    THEN Raise("AttributeError", <<"'list' object has no attribute 'get'">>)
    ELSE LET data == resp.body.d
             error_code == DictGet(data, "code", PyNone)
             error_message == DictGet(data, "message", MsgUnknownError)
         IN IF error_code # PyInt(0)
            THEN Raise("BilibiliError",
                       <<"api_error", " ", PyText(error_code), ": ">>
                           \o FriendlyAsync(error_code, error_message))
            ELSE Ret(data)

\* The first except clause names aiohttp.ClientTimeout, which is no exception
\* class: matching any exception against it raises TypeError, and that is
\* what leaves the function whenever the body raises.
_make_request_async(url, resp) ==
    LET r == MakeRequestAsyncBody(url, resp)
    IN IF IsRaise(r) THEN Raise("TypeError", MsgCatchNonException) ELSE r


(***************************************************************************)
(* cookies_tool.  A browser cookie is a function on the keys it carries:   *)
(* name, value, domain, path, expires, sameSite, secure.  expires is in    *)
(* tenths of a second, so that a fractional time can be written.           *)
(***************************************************************************)
site_domain == ".bilibili.com"

\* None as a component of a key.
NoneKey == "<None>"

SetKey(c, k, v) == [x \in DOMAIN c \cup {k} |-> IF x = k THEN v ELSE c[x]]
PopKey(c, k) == [x \in DOMAIN c \ {k} |-> c[x]]

\* int() of a positive time: the fraction is cut off.
IntOfTenths(e) == (e \div 10) * 10

\* (c["name"], c.get("domain"), c.get("path", "/"))
CookieKey(c) == <<c.name, DictGet(c, "domain", NoneKey), DictGet(c, "path", "/")>>

\* The expires branch of the loop body.
NormalizeExpires(c) ==
    IF "expires" \in DOMAIN c
    THEN IF c.expires <= 0 THEN PopKey(c, "expires")
         ELSE SetKey(c, "expires", IntOfTenths(c.expires))
    ELSE c

\* The sameSite branch of the loop body.
NormalizeSecure(c) ==
    IF DictGet(c, "sameSite", "") = "None" /\ ~DictGet(c, "secure", FALSE)
    THEN SetKey(c, "secure", TRUE)
    ELSE c

\* c = c.copy(): what follows writes to the copy; without the copy it would
\* write to the cookie of the input list.
WritesToCopy == TRUE

\* The loop of _sanitize_cookies from cookie i on; input is the list that
\* was passed in, as the writes of the loop leave it.
RECURSIVE SanitizeLoop(_, _, _, _)
SanitizeLoop(input, i, cleaned, seen) ==
    IF i > Len(input) THEN [cleaned |-> cleaned, input |-> input]
    ELSE LET c == input[i]
         IN IF DictGet(c, "name", "") = ""
            THEN SanitizeLoop(input, i + 1, cleaned, seen)
            ELSE IF DictGet(c, "value", "") = ""
            THEN SanitizeLoop(input, i + 1, cleaned, seen)
            ELSE IF CookieKey(c) \in seen
            THEN SanitizeLoop(input, i + 1, cleaned, seen)
            ELSE LET c2 == NormalizeSecure(NormalizeExpires(c))
                     input2 == IF WritesToCopy THEN input ELSE [input EXCEPT ![i] = c2]
                 IN SanitizeLoop(input2, i + 1, Append(cleaned, c2),
                                 seen \cup {CookieKey(c)})

\* The list _sanitize_cookies returns, and its argument after the call.
_sanitize_cookies(raw) == SanitizeLoop(raw, 1, <<>>, {}).cleaned
SanitizeLeavesInput(raw) == SanitizeLoop(raw, 1, <<>>, {}).input

\* What save_bilibili_cookies dumps to the cookie file for the cookies the
\* browser context holds: the sanitized cookies, each with its domain set
\* to the site's.
CookiesToSave(raw) ==
    LET cleaned == _sanitize_cookies(raw)
    IN [i \in 1..Len(cleaned) |-> SetKey(cleaned[i], "domain", site_domain)]

\* The cookies a browser context may hold after the login.
BaseCookie(name, value, domain) ==
    [name |-> name, value |-> value, domain |-> domain, path |-> "/"]
BrowserCookies ==
    { BaseCookie("SESSDATA", "v1", ".bilibili.com"),
      BaseCookie("SESSDATA", "v2", "www.bilibili.com"),
      [name |-> "SESSDATA", value |-> "v3", domain |-> ".bilibili.com"],
      BaseCookie("", "v4", ".bilibili.com"),
      [value |-> "v5", domain |-> ".bilibili.com", path |-> "/"],
      BaseCookie("buvid3", "", ".bilibili.com"),
      SetKey(BaseCookie("sid", "v6", ".bilibili.com"), "expires", -10),
      SetKey(BaseCookie("b_nut", "v7", ".bilibili.com"), "expires", 5),
      SetKey(BaseCookie("bili_jct", "v8", ".bilibili.com"), "expires", 17000007),
      [name |-> "DedeUserID", value |-> "v9", domain |-> ".bilibili.com", path |-> "/",
       sameSite |-> "None", secure |-> FALSE] }

RECURSIVE CookieLists(_)
CookieLists(len) ==
    IF len = 0 THEN { <<>> }
    ELSE LET shorter == CookieLists(len - 1)
         IN shorter \cup { Append(l, c) : l \in { x \in shorter : Len(x) = len - 1 },
                                          c \in BrowserCookies }

(***************************************************************************)
(* The state.                                                              *)
(*   cookies, playwright  the client's credential and PLAYWRIGHT_AVAILABLE *)
(*   pc, call, mode       position, arguments and execution mode of the    *)
(*                        call ("async": asyncio.run; "sync": a loop is    *)
(*                        already running and get_comments takes its       *)
(*                        synchronous version; "thread": a loop is already *)
(*                        running and search_articles runs asyncio.run in  *)
(*                        a worker thread)                                 *)
(*   src                  the platform content the call reads: the comment *)
(*                        source, or the answer to the call's lookup,      *)
(*                        search or page request                           *)
(*   netlog               the requests issued one after another, in order  *)
(*   aid .. tasks         the locals of get_comments and of its helpers;   *)
(*                        tasks are the reply coroutines handed to gather  *)
(*   cid                  the local cid of get_danmaku                     *)
(*   ret                  what the client operation gave its caller        *)
(*   tool                 what the MCP tool gave its caller                *)
(*   cookie_file          bilibili_cookies.json as save_bilibili_cookies   *)
(*                        has written it; no client operation writes it    *)
(***************************************************************************)
VARIABLES cookies, playwright, pc, call, mode, src, netlog,
          aid, comments, page, main_comments, processed, tasks, cid, ret, tool,
          cookie_file

vars == <<cookies, playwright, pc, call, mode, src, netlog,
          aid, comments, page, main_comments, processed, tasks, cid, ret, tool,
          cookie_file>>
client == <<cookies, playwright, cookie_file>>
locals == <<aid, comments, page, main_comments, processed, tasks, cid>>

NoValue == [k |-> "none"]
NoCall == [op |-> "none"]
NoSource == [kind |-> "none"]

CookieInputs == { PyNone, PyStr(<<>>), PyStr(<<"SESSDATA=abc">>) }
TopkInputs == (-1)..MaxTopk
\* The requested counts of search_articles reach past the placeholder cap.
ArticleTopkInputs == TopkInputs \cup {MockMax + 1}
ReplyCountInputs == (-1)..MaxReplyCount

(***************************************************************************)
(* The comment section of a video: total primary comments numbered from 1, *)
(* served in pages of at most srvPage items.  A profile fixes which        *)
(* comments have replies: a "thread" has rcount > 0 and an rpid, a "plain" *)
(* comment has rcount 0, a "norpid" comment has rcount > 0 but no rpid.    *)
(* A thread has one or two replies.                                        *)
(***************************************************************************)
Profiles == {"plain", "threads", "mixed"}
\* A count past the synchronous mode's cap on topk.
LargeCount == SyncTopkCap + 20

\* The small sources, and one with more comments than the cap, served in
\* pages of the size the client asks for.  A source of threads alone holds
\* at most MaxThreads comments: each of them starts a reply coroutine.
CommentSources ==
    { [kind |-> "comments", total |-> n, srvPage |-> s, profile |-> p] :
        n \in 0..MaxTotal, s \in 1..MaxSrvPage, p \in Profiles \ {"threads"} }
    \cup { [kind |-> "comments", total |-> n, srvPage |-> s, profile |-> "threads"] :
             n \in 0..MaxThreads, s \in 1..MaxSrvPage }
    \cup { [kind |-> "comments", total |-> LargeCount, srvPage |-> AsyncPageSize,
            profile |-> "plain"] }

CommentKind(s, i) ==
    CASE s.profile = "plain" -> "plain"
      [] s.profile = "threads" -> "thread"
      [] OTHER -> IF i % 4 = 3 THEN "plain" ELSE IF i % 4 = 0 THEN "norpid" ELSE "thread"

ThreadReplies(i) == 1 + (i % 2)

SourceComment(s, i) ==
    CASE CommentKind(s, i) = "plain" -> [message |-> i, rpid |-> i, rcount |-> 0]
      [] CommentKind(s, i) = "norpid" -> [message |-> i, rcount |-> ThreadReplies(i)]
      [] OTHER -> [message |-> i, rpid |-> i, rcount |-> ThreadReplies(i)]

SourceReply(rpid, j) == [message |-> <<rpid, j>>]

\* The page size the platform serves for a requested ps.
ServedPageSize(s, ps) == IF ps >= 1 THEN Min(ps, s.srvPage) ELSE s.srvPage

PageItems(n, item(_), pn, sz) ==
    LET lo == (pn - 1) * sz + 1
        hi == Min(pn * sz, n)
    IN [k \in 1..Max(0, hi - lo + 1) |-> item(lo + k - 1)]

MainPage(s, pn, ps) ==
    LET item(i) == SourceComment(s, i)
    IN PageItems(s.total, item, pn, ServedPageSize(s, ps))

ReplyPage(s, rpid, pn, ps) ==
    LET item(j) == SourceReply(rpid, j)
    IN PageItems(ThreadReplies(rpid), item, pn, ServedPageSize(s, ps))

RepliesOk(items) == [code |-> PyInt(0), data |-> [replies |-> items]]

\* data.get('data', {}).get('replies', [])
RepliesOf(data) == DictGet(DictGet(data, "data", EmptyDict), "replies", <<>>)

(***************************************************************************)
(* The view endpoint (x/web-interface/view).                               *)
(***************************************************************************)
FullVideoData ==
    [aid |-> PyInt(170001), bvid |-> "<bvid>", title |-> "a title",
     desc |-> "a description", pic |-> "http://cover", pubdate |-> 1600000000,
     duration |-> 120, tname |-> "category",
     stat |-> [view |-> 7, danmaku |-> 6, reply |-> 5, favorite |-> 4,
               coin |-> 3, share |-> 2, like |-> 1],
     owner |-> [name |-> "an owner", mid |-> 42],
     tags |-> << [tag_name |-> "t1"], [tag_name |-> ""], [tag_id |-> 9] >>,
     pages |-> << [cid |-> PyInt(279786), page |-> 1] >>]

DropKey(d, key) == [x \in DOMAIN d \ {key} |-> d[x]]

ViewOks ==
    { [code |-> PyInt(0), data |-> FullVideoData],
      [code |-> PyInt(0), data |-> DropKey(FullVideoData, "tags")],
      [code |-> PyInt(0), data |-> DropKey(FullVideoData, "owner")],
      [code |-> PyInt(0), data |-> DropKey(FullVideoData, "aid")],
      [code |-> PyInt(0)] }

\* _get_aid_from_bvid and _get_aid_from_bvid_async: r is what the transport
\* gave; every exception is caught and None is returned.
AidFromResult(r) ==
    IF IsRaise(r) THEN PyNone
    ELSE IF DictGet(r.v, "code", PyNone) = PyInt(0)
         THEN DictGet(DictGet(r.v, "data", EmptyDict), "aid", PyNone)
         ELSE PyNone

AidTimeout == 60
FastTimeout == 30
DefaultTimeout == 10
PageTimeout == 15
DanmakuTimeout == 10

_get_aid_from_bvid(bvid, resp) == AidFromResult(_make_request(ViewUrl(bvid), resp, AidTimeout))
_get_aid_from_bvid_async(bvid, resp) ==
    AidFromResult(_make_request_async(ViewUrl(bvid), resp))


(***************************************************************************)
(* get_comments: primary comments.                                         *)
(***************************************************************************)
\* effective_topk of _get_comments_sync; the cooperative mode uses topk.
EffectiveTopk(m, topk) == IF m = "sync" THEN Min(topk, SyncTopkCap) ELSE topk

\* page_size of _fetch_main_comments_async and of _fetch_main_comments_fast.
MainPageSize(m, topk) == IF m = "sync" THEN Min(topk, FastPageSizeCap) ELSE AsyncPageSize

\* The while condition with <= for <.
MainLoopContinuesOffByOne(m, cs, pn, topk) ==
    /\ Len(cs) <= topk
    /\ m = "sync" => pn <= FastMaxPages

\* The while condition without the page bound of the synchronous mode.
MainLoopContinuesUnbounded(m, cs, pn, topk) == Len(cs) < topk

\* The while condition of the two page loops.
MainLoopContinues(m, cs, pn, topk) ==
    /\ Len(cs) < topk
    /\ m = "sync" => pn <= FastMaxPages

\* What the except clause of the page loop returns when a page fetch raises.
MainOnFailure(cs, topk) == <<>>

\* One pass of the loop body, given what the transport gave for page pn:
\* either the function returns (done, with its result) or the loop goes on.
MainStep(m, r, cs, pn, topk) ==
    IF IsRaise(r)
    THEN [done |-> TRUE, result |-> MainOnFailure(cs, topk)]
    ELSE IF DictGet(r.v, "code", PyNone) # PyInt(0)
    THEN [done |-> TRUE, result |-> PySlicePrefix(cs, topk)]
    ELSE LET replies == RepliesOf(r.v)
         IN IF replies = <<>>
            THEN [done |-> TRUE, result |-> PySlicePrefix(cs, topk)]
            ELSE LET cs2 == cs \o replies
                 IN IF MainLoopContinues(m, cs2, pn + 1, topk)
                    THEN [done |-> FALSE, comments |-> cs2, page |-> pn + 1]
                    ELSE [done |-> TRUE, result |-> PySlicePrefix(cs2, topk)]

(***************************************************************************)
(* get_comments: replies.                                                  *)
(***************************************************************************)
\* max_replies_per_comment
MaxRepliesPerComment(m, reply_count) ==
    IF m = "sync" THEN Min(reply_count, SyncMaxReplies)
    ELSE Min(reply_count, AsyncMaxReplies)

\* comment.get('rcount', 0) > 0 and a truthy comment.get('rpid')
NeedsSubFetch(c) == DictGet(c, "rcount", 0) > 0 /\ DictGet(c, "rpid", 0) # 0

ProcessReply(reply) == [content |-> reply.message]
ProcessReplies(rs) == [j \in 1..Len(rs) |-> ProcessReply(rs[j])]

\* comment_data
CommentData(c, replies) == [content |-> c.message, replies |-> replies]

\* _fetch_sub_comments_fast: one request, no loop.
_fetch_sub_comments_fast(url, resp, max_replies) ==
    LET r == _make_request(url, resp, FastTimeout)
    IN IF IsRaise(r) THEN <<>>
       ELSE IF DictGet(r.v, "code", PyNone) # PyInt(0) THEN <<>>
       ELSE PySlicePrefix(ProcessReplies(RepliesOf(r.v)), max_replies)

\* The index of the first comment from position i on that needs a sub-fetch,
\* or Len(mc) + 1.
RECURSIVE NextFetchIndex(_, _)
NextFetchIndex(mc, i) ==
    IF i > Len(mc) THEN i
    ELSE IF NeedsSubFetch(mc[i]) THEN i
    ELSE NextFetchIndex(mc, i + 1)

\* comment_data of the comments at positions i..j-1, which need no sub-fetch.
PlainRun(mc, i, j) == [k \in 1..(j - i) |-> CommentData(mc[i + k - 1], <<>>)]

\* A reply coroutine of the cooperative mode; reqs counts the requests it
\* has sent and failed tells whether one of them raised.  st is where the
\* coroutine stands: "ready" in the request helper before its request is
\* sent, "inflight" while it awaits the answer, "paused" in the sleep that
\* ends the loop body, "done" once it has returned.  gather starts the
\* coroutines in order and each runs to its first await, so the first loop
\* test belongs to the creation.
NewTask(rpid, max_replies) ==
    IF 0 < max_replies
    THEN [rpid |-> rpid, page |-> 1, replies |-> <<>>, st |-> "ready",
          reqs |-> 0, failed |-> FALSE, result |-> NoValue]
    ELSE [rpid |-> rpid, page |-> 1, replies |-> <<>>, st |-> "done",
          reqs |-> 0, failed |-> FALSE, result |-> Ret(PySlicePrefix(<<>>, max_replies))]

RECURSIVE MakeTasks(_, _)
MakeTasks(mc, max_replies) ==
    IF mc = <<>> THEN <<>>
    ELSE IF NeedsSubFetch(Head(mc))
         THEN <<NewTask(Head(mc).rpid, max_replies)>> \o MakeTasks(Tail(mc), max_replies)
         ELSE MakeTasks(Tail(mc), max_replies)

\* What the except clause of _fetch_sub_comments_async returns.
SubOnFailure(replies) == Ret(<<>>)

\* The loop body of _fetch_sub_comments_async for task t from the answer r
\* of its request to the sleep that ends the body, or to the return of a
\* break or of the except clause.
SubStepAsync(t, r, max_replies) ==
    IF IsRaise(r)
    THEN [t EXCEPT !.st = "done", !.failed = TRUE, !.result = SubOnFailure(t.replies)]
    ELSE IF DictGet(r.v, "code", PyNone) # PyInt(0)
    THEN [t EXCEPT !.st = "done", !.result = Ret(PySlicePrefix(t.replies, max_replies))]
    ELSE LET sub == RepliesOf(r.v)
         IN IF sub = <<>>
            THEN [t EXCEPT !.st = "done",
                           !.result = Ret(PySlicePrefix(t.replies, max_replies))]
            ELSE [t EXCEPT !.st = "paused",
                           !.replies = t.replies \o ProcessReplies(sub),
                           !.page = t.page + 1]

\* The loop test of _fetch_sub_comments_async when the sleep of task t is
\* over, and the return after the loop.
SubLoopTest(t, max_replies) ==
    IF Len(t.replies) < max_replies
    THEN [t EXCEPT !.st = "ready"]
    ELSE [t EXCEPT !.st = "done", !.result = Ret(PySlicePrefix(t.replies, max_replies))]

\* reply_map when one failed coroutine fails the whole gather.
ReplyMapAllOrNothing(ts) ==
    IF \E i \in 1..Len(ts) : ts[i].failed
    THEN [r \in { ts[i].rpid : i \in 1..Len(ts) } |-> <<>>]
    ELSE [r \in { ts[i].rpid : i \in 1..Len(ts) } |->
            ts[CHOOSE i \in 1..Len(ts) : ts[i].rpid = r].result.v]

\* reply_map: the result of gather for each task's rpid, an exception
\* counting as no replies; a later task of the same rpid overwrites.
RECURSIVE ReplyMapOf(_)
ReplyMapOf(ts) ==
    IF ts = <<>> THEN EmptyDict
    ELSE LET t == ts[Len(ts)]
             mine == IF IsRaise(t.result) THEN <<>> ELSE t.result.v
         IN (t.rpid :> mine) @@ ReplyMapOf(SubSeq(ts, 1, Len(ts) - 1))

\* The final assembly of _get_comments_async with include_replies.
AssembleAsync(mc, ts) ==
    LET reply_map == ReplyMapOf(ts)
    IN [i \in 1..Len(mc) |->
          CommentData(mc[i], DictGet(reply_map, DictGet(mc[i], "rpid", 0), <<>>))]

\* The final assembly when reply_tasks is empty: reply_map was never
\* assigned, so reading it for the first comment raises.
AssembleWithoutTasks(mc) ==
    Raise("UnboundLocalError",
          <<"cannot access local variable 'reply_map' where it is not associated with a value">>)

\* Both modes without include_replies.
AssemblePlain(mc) == [i \in 1..Len(mc) |-> CommentData(mc[i], <<>>)]


(***************************************************************************)
(* Pages fetched with session.get: a network failure, an error status, or  *)
(* status 200 with a page.                                                 *)
(***************************************************************************)
DirectResponses(pages) ==
    NetFailures
    \cup { HttpResponse(st, NotJson) : st \in ErrorStatuses }
    \cup { HttpResponse(200, pg) : pg \in pages }

\* session.get followed by raise_for_status(): the page, or the exception.
GetAndRaiseForStatus(url, resp, timeout) ==
    IF resp.net # "http"
    THEN Raise(NetErrorClass(resp), NetErrorText(resp, url, timeout))
    ELSE IF IsHttpError(resp.status)
    THEN Raise("HTTPError", HttpErrorText(resp.status, url))
    ELSE Ret(resp.body)

(***************************************************************************)
(* DataExtractor.  A counter text is a sequence of one-character tokens:   *)
(* ASCII digits, ".", the units "wan" (10000), "qian" (1000), "bai" (100), *)
(* "shi" (10), and other characters.                                       *)
(***************************************************************************)
\* \d of a str pattern matches every Unicode decimal digit (category Nd):
\* the ASCII digits and U+FF13, but not U+00B2 (category No).
DecimalDigits == AsciiDigits \cup {"fw3"}
NumberChars == DecimalDigits \cup {"."}
Multipliers == [wan |-> 10000, qian |-> 1000, bai |-> 100, shi |-> 10]

\* The digit a decimal-digit character stands for, as float() reads it.
DigitValue(c) ==
    IF c = "fw3" THEN 3
    ELSE CHOOSE n \in 0..9 : <<"0", "1", "2", "3", "4", "5", "6", "7", "8", "9">>[n + 1] = c

\* The value of a run of digits, read as a decimal numeral.
RECURSIVE DigitsValue(_)
DigitsValue(ds) ==
    IF ds = <<>> THEN 0
    ELSE 10 * DigitsValue(SubSeq(ds, 1, Len(ds) - 1)) + DigitValue(ds[Len(ds)])

RECURSIVE Pow10(_)
Pow10(k) == IF k = 0 THEN 1 ELSE 10 * Pow10(k - 1)

IsDigit(c) == c \in DecimalDigits

(***************************************************************************)
(* IEEE 754 doubles.  A double is a significand m, the sequence of its at  *)
(* most 53 binary digits (most significant first, <<>> being zero), and an *)
(* exponent e; its value is m * 2^e.  The arithmetic on long naturals is   *)
(* done on sequences of digits to the base 4096, most significant first.   *)
(* The numbers here are within the range of normal doubles.                *)
(***************************************************************************)
SignificandBits == 53
LimbBits == 12
LimbBase == 4096

RECURSIVE Pow2(_)
Pow2(k) == IF k = 0 THEN 1 ELSE 2 * Pow2(k - 1)

RECURSIVE BitsNat(_)
BitsNat(b) == IF b = <<>> THEN 0 ELSE 2 * BitsNat(SubSeq(b, 1, Len(b) - 1)) + b[Len(b)]

RECURSIVE NatLimbs(_)
NatLimbs(n) == IF n = 0 THEN <<>> ELSE Append(NatLimbs(n \div LimbBase), n % LimbBase)

RECURSIVE StripZeros(_)
StripZeros(b) == IF b # <<>> /\ Head(b) = 0 THEN StripZeros(Tail(b)) ELSE b

Zeros(k) == [i \in 1..k |-> 0]

\* The binary digits of a long natural, and back.
LimbsToBits(l) ==
    StripZeros([i \in 1..(LimbBits * Len(l)) |->
                  (l[((i - 1) \div LimbBits) + 1]
                      \div Pow2(LimbBits - 1 - ((i - 1) % LimbBits))) % 2])
BitsToLimbs(b) ==
    LET padded == Zeros((LimbBits - (Len(b) % LimbBits)) % LimbBits) \o b
    IN StripZeros([j \in 1..(Len(padded) \div LimbBits) |->
                      BitsNat(SubSeq(padded, (j - 1) * LimbBits + 1, j * LimbBits))])

\* l * m + carry, from the last digit of l to the first; m < 2^18.
RECURSIVE MulAdd(_, _, _, _, _)
MulAdd(l, i, m, carry, acc) ==
    IF i = 0 THEN NatLimbs(carry) \o acc
    ELSE LET d == l[i] * m + carry
         IN MulAdd(l, i - 1, m, d \div LimbBase, <<d % LimbBase>> \o acc)
MulSmall(l, m) == StripZeros(MulAdd(l, Len(l), m, 0, <<>>))

\* l div d and l mod d by long division; d < 2^18.
RECURSIVE DivLoop(_, _, _, _, _)
DivLoop(l, i, d, rem, q) ==
    IF i > Len(l) THEN [q |-> StripZeros(q), r |-> rem]
    ELSE LET x == LimbBase * rem + l[i]
         IN DivLoop(l, i + 1, d, x % d, Append(q, x \div d))
DivSmall(l, d) == DivLoop(l, 1, d, 0, <<>>)

\* l div 10^k, five decimal places at a time, with inexact telling whether
\* anything was cut off.
RECURSIVE DivPow10(_, _, _)
DivPow10(l, k, inexact) ==
    IF k = 0 THEN [q |-> l, inexact |-> inexact]
    ELSE LET places == IF k > 5 THEN 5 ELSE k
             one == DivSmall(l, Pow10(places))
         IN DivPow10(one.q, k - places, inexact \/ one.r # 0)

\* b + 1 on binary digits.
RECURSIVE Increment(_)
Increment(b) ==
    IF b = <<>> THEN <<1>>
    ELSE IF b[Len(b)] = 0 THEN SubSeq(b, 1, Len(b) - 1) \o <<1>>
    ELSE Increment(SubSeq(b, 1, Len(b) - 1)) \o <<0>>

\* The double nearest to b * 2^e (plus a fraction of its last digit when
\* sticky), b in binary digits; ties go to the even significand.
RoundToDouble(b, e, sticky) ==
    IF Len(b) <= SignificandBits THEN [m |-> b, e |-> e]
    ELSE LET top == SubSeq(b, 1, SignificandBits)
             guard == b[SignificandBits + 1]
             rest == sticky \/ \E i \in (SignificandBits + 2)..Len(b) : b[i] = 1
             up == guard = 1 /\ (rest \/ top[SignificandBits] = 1)
             m == IF up THEN Increment(top) ELSE top
             cut == Len(b) - SignificandBits
         IN IF Len(m) > SignificandBits
            THEN [m |-> SubSeq(m, 1, SignificandBits), e |-> e + cut + 1]
            ELSE [m |-> m, e |-> e + cut]

\* The long natural a run of decimal digits spells.
RECURSIVE DigitsLimbs(_)
DigitsLimbs(ds) ==
    IF ds = <<>> THEN <<>>
    ELSE LET front == DigitsLimbs(SubSeq(ds, 1, Len(ds) - 1))
         IN StripZeros(MulAdd(front, Len(front), 10, DigitValue(ds[Len(ds)]), <<>>))

\* float(number_str), number_str being digits with that many of them after
\* the dot: the double nearest to digits / 10^decimals.  The numerator is
\* shifted left far enough for the quotient to have more than 53 digits.
FloatOf(digits, decimals) ==
    LET n == LimbsToBits(DigitsLimbs(digits))
        shift == Max(0, 60 + 4 * decimals - Len(n))
        quot == DivPow10(BitsToLimbs(n \o Zeros(shift)), decimals, FALSE)
    IN IF n = <<>> THEN [m |-> <<>>, e |-> 0]
       ELSE RoundToDouble(LimbsToBits(quot.q), -shift, quot.inexact)

\* x * k for a double x and a small integer k: the double nearest to the
\* product.
FloatTimes(x, k) == RoundToDouble(LimbsToBits(MulSmall(BitsToLimbs(x.m), k)), x.e, FALSE)

\* int(x): the digits after the binary point are cut off.
IntOfFloat(x) ==
    IF x.e >= 0 THEN BitsNat(x.m \o Zeros(x.e))
    ELSE BitsNat(SubSeq(x.m, 1, Len(x.m) + x.e))

\* int(float(number_str) * multiplier)
FloatProductInt(digits, decimals, unit) ==
    IntOfFloat(FloatTimes(FloatOf(digits, decimals), unit))

\* parse_number_with_unit: the first run of digits and dots with the unit
\* after it, int(float(run) * multiplier); 0 when there is no run or float()
\* rejects it.  The texts are those whose result is below 2^31; the source
\* computes on unbounded integers.
parse_number_with_unit(text) ==
    LET starts == { i \in 1..Len(text) : text[i] \in NumberChars }
    IN IF starts = {} THEN 0
       ELSE LET first == CHOOSE i \in starts : \A k \in starts : i <= k
                last == CHOOSE j \in first..Len(text) :
                          /\ \A k \in first..j : text[k] \in NumberChars
                          /\ j = Len(text) \/ text[j + 1] \notin NumberChars
                number_str == SubSeq(text, first, last)
                unit == IF last < Len(text) /\ text[last + 1] \in DOMAIN Multipliers
                        THEN Multipliers[text[last + 1]] ELSE 1
                dots == { k \in 1..Len(number_str) : number_str[k] = "." }
                digits == SelectSeq(number_str, IsDigit)
            IN IF Cardinality(dots) > 1 \/ digits = <<>> THEN 0
               ELSE LET decimals == IF dots = {} THEN 0
                                    ELSE Len(number_str) - (CHOOSE k \in dots : TRUE)
                    IN FloatProductInt(digits, decimals, unit)

\* The texts of a counter element of the video page; <<>> when the page has
\* no such element.
StatTexts ==
    { <<>>, <<"7">>, <<"4", ".", "1", "wan">>, <<"2", ".", "3", "bai">>,
      <<"4", ".", "3", "5", "bai">>, <<"fw3", "wan">>,
      <<"1", ".", "2", ".", "3">>, <<"x">>, <<"x", "1", "2", "qian", "5">> }

(***************************************************************************)
(* get_video_info.                                                         *)
(***************************************************************************)
VideoInfoKeys == {"bvid", "title", "desc", "pic", "pubdate", "duration", "stat", "owner", "tname"}

HasTagName(tag) == DictGet(tag, "tag_name", "") # ""
TagNames(tags) ==
    LET kept == SelectSeq(tags, HasTagName)
    IN [i \in 1..Len(kept) |-> kept[i].tag_name]

\* The body of the try block of get_video_info after the request: data is
\* the parsed answer.
BuildVideoInfo(data) ==
    IF "data" \notin DOMAIN data THEN Raise("KeyError", <<"'data'">>)
    ELSE LET video_data == data.data
         IN IF VideoInfoKeys \ DOMAIN video_data # {}
            THEN Raise("KeyError", <<"'", "<key>", "'">>)
            ELSE Ret([bvid |-> video_data.bvid, title |-> video_data.title,
                      desc |-> video_data.desc, pic |-> video_data.pic,
                      pubdate |-> video_data.pubdate, duration |-> video_data.duration,
                      view |-> video_data.stat.view, danmaku |-> video_data.stat.danmaku,
                      reply |-> video_data.stat.reply, favorite |-> video_data.stat.favorite,
                      coin |-> video_data.stat.coin, share |-> video_data.stat.share,
                      like |-> video_data.stat.like,
                      owner_name |-> video_data.owner.name,
                      owner_mid |-> video_data.owner.mid,
                      tname |-> video_data.tname,
                      tags |-> IF "tags" \in DOMAIN video_data /\ video_data.tags # <<>>
                               THEN TagNames(video_data.tags) ELSE <<>>])

_handle_video_error(r) ==
    IF Contains(r.msg, "Expecting value: line 1 column 1 (char 0)")
    THEN ResponseFormatter_error(MsgVideoUnreachable, NoneData)
    ELSE IF Contains(r.msg, "404") \/ Contains(r.msg, "Not Found")
    THEN ResponseFormatter_error(MsgVideoMissing, NoneData)
    ELSE IF Contains(r.msg, "403") \/ Contains(r.msg, "Forbidden")
    THEN ResponseFormatter_error(MsgVideoDenied, NoneData)
    ELSE ResponseFormatter_error(<<"get_video_info failed", ": ">> \o r.msg, NoneData)

\* except Exception of get_video_info.
GetVideoInfoCatch(r) == IF IsRaise(r) THEN Ret(_handle_video_error(r)) ELSE r

\* get_video_info by the API once the identifier has passed validation.
GetVideoInfoApi(bvid, resp) ==
    LET r == _make_request(ViewUrl(bvid), resp, DefaultTimeout)
        info == IF IsRaise(r) THEN r ELSE BuildVideoInfo(r.v)
    IN GetVideoInfoCatch(
         IF IsRaise(info) THEN info
         ELSE Ret(ResponseFormatter_success(PyDict(info.v), "api")))

\* The most digits int() converts: sys.get_int_max_str_digits() of the
\* interpreter, as it is set when the interpreter starts.
IntMaxStrDigits == 4300

\* str(e) of the ValueError of int() for a string of n digits.
IntTooLongText(n) ==
    << "Exceeds the limit (", NatText(IntMaxStrDigits),
       " digits) for integer string conversion: value has ", NatText(n),
       " digits; use sys.set_int_max_str_digits() to increase the limit" >>

\* int(match.group(1)) for the run of digits a pattern (\d+) matched.
IntOfDigits(ds) ==
    IF Len(ds) > IntMaxStrDigits THEN Raise("ValueError", IntTooLongText(Len(ds)))
    ELSE Ret(DigitsValue(ds))

\* The runs of digits the patterns "reply":(\d+), "pubdate":(\d+) and
\* "duration":(\d+) match in a page, <<>> when a pattern matches nothing:
\* runs whose number is below 2^31, and a run of one digit more than int()
\* converts.
LongDigits == [i \in 1..(IntMaxStrDigits + 1) |-> "1"]
NoNumbers == [reply |-> <<>>, pubdate |-> <<>>, duration |-> <<>>]
ShortNumbers ==
    [reply |-> <<"5">>,
     pubdate |-> <<"1", "6", "0", "0", "0", "0", "0", "0", "0", "0">>,
     duration |-> <<"1", "2", "0">>]
JsonNumbers ==
    { NoNumbers, ShortNumbers,
      [NoNumbers EXCEPT !.reply = LongDigits],
      [ShortNumbers EXCEPT !.pubdate = LongDigits],
      [ShortNumbers EXCEPT !.duration = LongDigits] }

\* A video page, by what the patterns of the script path find in it.
VideoPages ==
    [is404 : BOOLEAN, title_tag : {<<>>, <<"page title">>},
     json_title : {<<>>, <<"json title">>}, owner : BOOLEAN, rest : BOOLEAN,
     numbers : JsonNumbers, stat_text : StatTexts]

\* if match: video_info[key] = int(match.group(1)), the field keeping its
\* 0 without a match.
NumberField(ds) == IF ds = <<>> THEN Ret(0) ELSE IntOfDigits(ds)

\* The extraction of _get_video_info_script_method: the record video_info,
\* or the exception of the first int() that raises.
ScriptVideoInfo(pg) ==
    LET reply == NumberField(pg.numbers.reply)
        pubdate == NumberField(pg.numbers.pubdate)
        duration == NumberField(pg.numbers.duration)
    IN IF IsRaise(reply) THEN reply
       ELSE IF IsRaise(pubdate) THEN pubdate
       ELSE IF IsRaise(duration) THEN duration
       ELSE Ret(
        [bvid |-> "<bvid>",
         title |-> IF pg.title_tag # <<>> THEN pg.title_tag ELSE pg.json_title,
         desc |-> IF pg.rest THEN <<"a description">> ELSE <<>>,
         pic |-> IF pg.rest THEN <<"http://cover">> ELSE <<>>,
         pubdate |-> pubdate.v,
         duration |-> duration.v,
         view |-> parse_number_with_unit(pg.stat_text),
         danmaku |-> parse_number_with_unit(pg.stat_text),
         reply |-> reply.v,
         favorite |-> parse_number_with_unit(pg.stat_text),
         coin |-> parse_number_with_unit(pg.stat_text),
         share |-> parse_number_with_unit(pg.stat_text),
         like |-> parse_number_with_unit(pg.stat_text),
         owner_name |-> IF pg.owner THEN <<"an owner">> ELSE <<>>,
         owner_mid |-> IF pg.owner THEN <<"42">> ELSE <<>>,
         tname |-> IF pg.rest THEN <<"category">> ELSE <<>>,
         tags |-> IF pg.rest THEN << <<"t1">> >> ELSE <<>>])

\* The last test of _get_video_info_script_method: neither a title nor an
\* owner name was extracted.
NoBasicInfo(video_info) == video_info.title = <<>> /\ video_info.owner_name = <<>>

\* except Exception of _get_video_info_script_method.
ScriptVideoCatch(r) ==
    IF IsRaise(r) THEN Ret([success |-> FALSE, error |-> r.msg, data |-> PyNone]) ELSE r

\* _get_video_info_script_method once the identifier has passed validation.
GetVideoInfoScript(bvid, resp) ==
    IF resp.net = "http" /\ resp.status = 404
    THEN Ret([success |-> FALSE, error |-> MsgVideoMissing, data |-> PyNone])
    ELSE IF resp.net = "http" /\ resp.status = 403
    THEN Ret([success |-> FALSE, error |-> MsgVideoDenied, data |-> PyNone])
    ELSE LET r == GetAndRaiseForStatus(VideoPageUrl(bvid), resp, PageTimeout)
         IN IF IsRaise(r) THEN ScriptVideoCatch(r)
            ELSE IF r.v.is404
            THEN Ret([success |-> FALSE, error |-> MsgVideoMissing, data |-> PyNone])
            ELSE LET video_info == ScriptVideoInfo(r.v)
                 IN IF IsRaise(video_info) THEN ScriptVideoCatch(video_info)
                    ELSE IF NoBasicInfo(video_info.v)
                    THEN Ret([success |-> FALSE, error |-> MsgVideoExtractFailed,
                              data |-> PyNone])
                    ELSE Ret([success |-> TRUE, data |-> PyDict(video_info.v),
                              method |-> "script"])

(***************************************************************************)
(* get_danmaku.                                                            *)
(***************************************************************************)
\* except Exception of get_danmaku.
GetDanmakuCatch(r) ==
    IF IsRaise(r) THEN Ret(ResponseFormatter_error(r.msg, NoneData)) ELSE r

\* The error of get_danmaku when the video-info lookup gave envelope vi.
DanmakuInfoError(vi) ==
    ResponseFormatter_error(
        <<"no_video_info", ": ">> \o DictGet(vi, "error", MsgUnknownError), NoneData)

DanmakuPages == { [xml |-> "<i>...</i>"] }

\* The cid get_danmaku goes on with after a successful video-info lookup.
PlaceholderCid == PyStr(Chars("62131"))

\* The danmaku request and what follows it.
FetchDanmaku(resp, bvid, c) ==
    LET r == GetAndRaiseForStatus(DanmakuUrl(c), resp, DanmakuTimeout)
    IN GetDanmakuCatch(
         IF IsRaise(r) THEN r
         ELSE Ret(ResponseFormatter_success(
                    PyDict([bvid |-> bvid, cid |-> c, danmaku_xml |-> r.v.xml]), "api")))

(***************************************************************************)
(* search_videos, API path.                                                *)
(***************************************************************************)
VideoItem(n) == [bvid |-> <<"BV", n>>, title |-> <<"title", n>>, play |-> 100 + n]
ArticleItem(n) == [id |-> <<"cv", n>>, title |-> <<"title", n>>, like |-> 100 + n]
NonDictItem == PyStr(<<"not a dict">>)

\* JSON objects are functions on their keys; every other JSON value is tagged.
IsDict(x) == "t" \notin DOMAIN x
IsList(x) == "t" \in DOMAIN x /\ x.t = "list"

\* The entries a result list is built from; n numbers the records.
SearchEntries(n) ==
    { VideoItem(n),
      [result_type |-> "video", data |-> VideoItem(n)],
      [result_type |-> "article", data |-> ArticleItem(n)],
      [result_type |-> "video",
       data |-> PyList(<<VideoItem(n), NonDictItem, VideoItem(n + 10)>>)],
      [result_type |-> "article",
       data |-> PyList(<<ArticleItem(n), ArticleItem(n + 10)>>)],
      [data |-> VideoItem(n)],
      NonDictItem }

RECURSIVE SearchLists(_)
SearchLists(len) ==
    IF len = 0 THEN { <<>> }
    ELSE LET shorter == SearchLists(len - 1)
         IN shorter \cup { Append(l, e) : l \in { x \in shorter : Len(x) = len - 1 },
                                          e \in SearchEntries(len) }

_extract_content_data(data, content_type) ==
    IF content_type = "video"
    THEN [bvid |-> DictGet(data, "bvid", <<>>), title |-> DictGet(data, "title", <<>>),
          description |-> DictGet(data, "description", <<>>),
          pic |-> DictGet(data, "pic", <<>>), play |-> DictGet(data, "play", 0),
          video_review |-> DictGet(data, "video_review", 0),
          duration |-> DictGet(data, "duration", <<>>),
          author |-> DictGet(data, "author", <<>>), pubdate |-> DictGet(data, "pubdate", 0)]
    ELSE [id |-> DictGet(data, "id", <<>>), title |-> DictGet(data, "title", <<>>),
          description |-> DictGet(data, "description", <<>>),
          pic |-> DictGet(data, "pic", <<>>), reply |-> DictGet(data, "reply", 0),
          like |-> DictGet(data, "like", 0), author |-> DictGet(data, "author", <<>>),
          category |-> DictGet(data, "category", <<>>), url |-> DictGet(data, "url", <<>>)]

\* The type test without the comparison.
AnyResultType(result_type, content_type) == TRUE

\* "result_type == content_type" of both loops.
SameResultType(result_type, content_type) == result_type = content_type

\* The inner loop over a wrapper whose data is a list.
RECURSIVE ProcessWrappedList(_, _, _, _, _)
ProcessWrappedList(items, i, results, topk, same_type) ==
    IF i > Len(items) THEN results
    ELSE IF IsDict(items[i]) /\ same_type
    THEN LET results2 == Append(results, _extract_content_data(items[i], "video"))
         IN IF Len(results2) >= topk THEN results2
            ELSE ProcessWrappedList(items, i + 1, results2, topk, same_type)
    ELSE ProcessWrappedList(items, i + 1, results, topk, same_type)

\* The outer loop of _process_search_results for content_type "video".
RECURSIVE ProcessSearchItems(_, _, _, _)
ProcessSearchItems(search_results, i, results, topk) ==
    IF i > Len(search_results) \/ Len(results) >= topk THEN results
    ELSE LET item == search_results[i]
         IN IF IsDict(item) /\ "data" \in DOMAIN item
            THEN LET actual_data == item.data
                     result_type == DictGet(item, "result_type", "video")
                 IN IF IsList(actual_data)
                    THEN ProcessSearchItems(search_results, i + 1,
                             ProcessWrappedList(actual_data.v, 1, results, topk,
                                                SameResultType(result_type, "video")), topk)
                    ELSE IF IsDict(actual_data) /\ SameResultType(result_type, "video")
                    THEN ProcessSearchItems(search_results, i + 1,
                             Append(results, _extract_content_data(actual_data, "video")), topk)
                    ELSE ProcessSearchItems(search_results, i + 1, results, topk)
            ELSE IF IsDict(item)
            THEN ProcessSearchItems(search_results, i + 1,
                     Append(results, _extract_content_data(item, "video")), topk)
            ELSE ProcessSearchItems(search_results, i + 1, results, topk)

\* The first of the keys "result", "video", "items" that search_data has.
SearchResultsOf(search_data) ==
    IF "result" \in DOMAIN search_data THEN search_data.result
    ELSE IF "video" \in DOMAIN search_data THEN search_data.video
    ELSE IF "items" \in DOMAIN search_data THEN search_data.items
    ELSE <<>>

\* The keys the first loop tries, in its order.
SearchKeys == <<"result", "video", "items">>

\* type(x).__name__
TypeName(x) == IF x.t = "None" THEN "NoneType" ELSE x.t

\* "key in search_data" for one of the keys, search_data being a list
\* (membership) or a string (substring).
HasSearchKey(search_data) ==
    \E k \in 1..Len(SearchKeys) :
        IF search_data.t = "list"
        THEN \E i \in 1..Len(search_data.v) : search_data.v[i] = PyStr(<<SearchKeys[k]>>)
        ELSE Contains(search_data.v, SearchKeys[k])

\* On a dict the items under the first key are processed.  A list or a
\* string has the "in" test but no get(): without any of the keys in it the
\* result is empty.  On every other value the "in" test raises.
_process_search_results(search_data, topk) ==
    IF IsDict(search_data)
    THEN Ret(ProcessSearchItems(SearchResultsOf(search_data), 1, <<>>, topk))
    ELSE IF search_data.t \in {"list", "str"}
    THEN IF HasSearchKey(search_data)
         THEN Raise("AttributeError",
                    <<"'" \o TypeName(search_data) \o "' object has no attribute 'get'">>)
         ELSE Ret(<<>>)
    ELSE Raise("TypeError",
               <<"argument of type '" \o TypeName(search_data) \o "' is not iterable">>)

SearchOks ==
    { [code |-> PyInt(0), data |-> [result |-> l]] : l \in SearchLists(MaxItems) }
    \cup { [code |-> PyInt(0), data |-> [video |-> <<VideoItem(1), VideoItem(2)>>]],
           [code |-> PyInt(0), data |-> [items |-> <<VideoItem(1)>>,
                                         video |-> <<VideoItem(2), VideoItem(3)>>]],
           [code |-> PyInt(0), data |-> [numPages |-> 0]],
           [code |-> PyInt(0), data |-> PyNone],
           [code |-> PyInt(0), data |-> PyList(<<>>)],
           [code |-> PyInt(0), data |-> PyList(<<PyStr(<<"video">>)>>)],
           [code |-> PyInt(0), data |-> PyStr(<<"no result">>)],
           [code |-> PyInt(0), data |-> PyInt(5)],
           [code |-> PyInt(0)] }

\* except Exception of search_videos, search_articles and of the script search.
SearchCatch(r) ==
    IF IsRaise(r) THEN Ret(ResponseFormatter_error(r.msg, EmptyListData)) ELSE r

\* search_videos by the API.
SearchVideosApi(resp, topk) ==
    LET r == _make_request(SearchApiUrl, resp, DefaultTimeout)
        results == IF IsRaise(r) THEN r
                   ELSE _process_search_results(DictGet(r.v, "data", EmptyDict), topk)
    IN SearchCatch(
         IF IsRaise(results) THEN results
         ELSE Ret(ResponseFormatter_success(PyList(results.v), "api")))

(***************************************************************************)
(* search_videos, script path.  A search page is the list of the video     *)
(* ids its links name, in document order, each with the info block that   *)
(* follows its link, if it has one, and what the field patterns find in    *)
(* that block.                                                             *)
(***************************************************************************)
NoBlock == [found |-> FALSE]
Block(title, n) ==
    [found |-> TRUE, title |-> title, author |-> <<"author", n>>, play |-> 100 + n,
     danmaku |-> 10 + n, duration |-> <<"3:0", n>>, pic |-> <<"//cover", n>>,
     pubdate |-> 1600000000 + n]

\* The links a page may have at position n: one of an id of its own, with a
\* block, with a block without title or without block; one of a longer id
\* that begins like it; and, after the first position, the id of the first
\* position again.
Candidates(n) ==
    { [bvid |-> <<"BV", n>>, block |-> Block(<<"title", n>>, n)],
      [bvid |-> <<"BV", n>>, block |-> Block(<<>>, n)],
      [bvid |-> <<"BV", n>>, block |-> NoBlock],
      [bvid |-> <<"BV", n, 0>>, block |-> Block(<<"title", n>>, n)] }
    \cup (IF n = 1 THEN {}
          ELSE { [bvid |-> <<"BV", 1>>, block |-> Block(<<"title", n>>, n)],
                 [bvid |-> <<"BV", 1>>, block |-> NoBlock] })

RECURSIVE CandidateLists(_)
CandidateLists(len) ==
    IF len = 0 THEN { <<>> }
    ELSE LET shorter == CandidateLists(len - 1)
         IN shorter \cup { Append(l, e) : l \in { x \in shorter : Len(x) = len - 1 },
                                          e \in Candidates(len) }

SearchPages ==
    { [indicators |-> TRUE, cands |-> l] : l \in CandidateLists(MaxItems) }
    \cup { [indicators |-> FALSE, cands |-> <<>>] }

\* The locals title .. pubdate of the loop before their first assignment.
Unbound == [found |-> FALSE]

\* The context pattern is searched from the top of the page: it runs from
\* the first link whose id begins with the id of candidate i to the first
\* info block after that link, its own or else that of a later link.
IsPrefix(prefix, s) == Len(prefix) <= Len(s) /\ SubSeq(s, 1, Len(prefix)) = prefix
FirstLinkOf(bv_matches, bvid) ==
    CHOOSE j \in 1..Len(bv_matches) :
        /\ IsPrefix(bvid, bv_matches[j].bvid)
        /\ \A k \in 1..(j - 1) : ~IsPrefix(bvid, bv_matches[k].bvid)
RECURSIVE FirstBlockFrom(_, _)
FirstBlockFrom(bv_matches, j) ==
    IF j > Len(bv_matches) THEN NoBlock
    ELSE IF bv_matches[j].block.found THEN bv_matches[j].block
    ELSE FirstBlockFrom(bv_matches, j + 1)
ContextMatch(bv_matches, i) ==
    FirstBlockFrom(bv_matches, FirstLinkOf(bv_matches, bv_matches[i].bvid))

\* The test of the loop with "or" in place of "and".
HasBasicDataEither(title, bvid) == title # <<>> \/ bvid # <<>>

\* "if title and bvid": a record is appended when both are non-empty.
HasBasicData(title, bvid) == title # <<>> /\ bvid # <<>>

\* The loop of _parse_video_search from candidate i on; cur holds the locals
\* title, author, play, danmaku, duration, pic and pubdate, which keep their
\* values from one pass to the next; reading them unbound raises NameError,
\* which the loop catches before it goes on.
RECURSIVE ParseVideoLoop(_, _, _, _, _)
ParseVideoLoop(bv_matches, i, n, cur, results) ==
    IF i > n THEN results
    ELSE LET bvid == bv_matches[i].bvid
             context_match == ContextMatch(bv_matches, i)
             cur2 == IF context_match.found THEN context_match ELSE cur
         IN IF ~cur2.found
            THEN ParseVideoLoop(bv_matches, i + 1, n, cur2, results)
            ELSE IF HasBasicData(cur2.title, bvid)
            THEN ParseVideoLoop(bv_matches, i + 1, n, cur2,
                     Append(results,
                            [bvid |-> bvid, title |-> cur2.title, description |-> <<>>,
                             pic |-> cur2.pic, play |-> cur2.play,
                             video_review |-> cur2.danmaku, duration |-> cur2.duration,
                             author |-> cur2.author, pubdate |-> cur2.pubdate]))
            ELSE ParseVideoLoop(bv_matches, i + 1, n, cur2, results)

_parse_video_search(html, topk) ==
    ParseVideoLoop(html.cands, 1, Min(topk, Len(html.cands)), Unbound, <<>>)

_search_videos_script_method(resp, topk) ==
    LET r == GetAndRaiseForStatus(SearchPageUrl, resp, PageTimeout)
    IN SearchCatch(
         IF IsRaise(r) THEN r
         ELSE IF ~r.v.indicators
         THEN Ret(ResponseFormatter_error(MsgNoSearchPage, EmptyListData))
         ELSE Ret(ResponseFormatter_success(PyList(_parse_video_search(r.v, topk)), "script")))

(***************************************************************************)
(* search_articles.                                                        *)
(***************************************************************************)
\* The placeholder record without the marker of its title and author.
MockArticleUnmarked(i) ==
    [id |-> <<"cv", 43049500 + i>>,
     title |-> <<Text(Keyword), i + 1>>,
     description |-> <<"mock description ", Text(Keyword), i + 1>>,
     pic |-> <<"mock_banner", i + 1>>,
     reply |-> 10 + i * 2,
     like |-> 50 + i * 10,
     author |-> <<"author", i + 1>>,
     category |-> <<"daily">>,
     url |-> <<"https://www.bilibili.com/read/cv", 43049500 + i>>]

\* The markers are the source's "[模拟数据] " and "[模拟] ".
MockArticle(i) ==
    [id |-> <<"cv", 43049500 + i>>,
     title |-> <<"[mock data] ", Text(Keyword), i + 1>>,
     description |-> <<"mock description ", Text(Keyword), i + 1>>,
     pic |-> <<"mock_banner", i + 1>>,
     reply |-> 10 + i * 2,
     like |-> 50 + i * 10,
     author |-> <<"[mock] ", "author", i + 1>>,
     category |-> <<"daily">>,
     url |-> <<"https://www.bilibili.com/read/cv", 43049500 + i>>]

_get_mock_article_data(topk) ==
    ResponseFormatter_success(
        PyList([k \in 1..Max(0, Min(topk, MockMax)) |-> MockArticle(k - 1)]), "script")

\* What the browser shows: the article cards of the result page, each by
\* what the selectors of the parser find in it: the link to the article (cv
\* holds the digits of its href, <<>> when the href has none), the title, the
\* description, the src of the first image, the counts of the info line and
\* the category.  An element that is not there gives the empty text or zero.
NoLink == [found |-> FALSE]
Link(cv) == [found |-> TRUE, cv |-> cv]

PlainCard(n, title) ==
    [link |-> Link(<<IntText(n)>>), title |-> title, desc |-> <<>>, img |-> <<>>,
     like |-> 0, reply |-> 0, category |-> <<>>]

RichCard(n, link) ==
    [link |-> link, title |-> <<"title", n>>, desc |-> <<"description", n>>,
     img |-> <<"//i0.hdslb.com/bfs/article/cover", n>>, like |-> 10 + n, reply |-> n,
     category |-> <<"category">>]

Cards(n) == { PlainCard(n, <<"title", n>>), PlainCard(n, <<>>),
              RichCard(n, Link(<<IntText(n)>>)), RichCard(n, NoLink), RichCard(n, Link(<<>>)) }

RECURSIVE CardLists(_)
CardLists(len) ==
    IF len = 0 THEN { <<>> }
    ELSE LET shorter == CardLists(len - 1)
         IN shorter \cup { Append(l, e) : l \in { x \in shorter : Len(x) = len - 1 },
                                          e \in Cards(len) }

\* The outcomes of the browser session.  stage tells where an exception was
\* raised: "launch" before page.goto (async_playwright, chromium.launch,
\* new_page), "goto" in page.goto, "close" in browser.close after the cards
\* were parsed; "done" when none was raised.
BrowserOutcomes ==
    { [raised |-> TRUE, stage |-> "launch", cards |-> <<>>],
      [raised |-> TRUE, stage |-> "goto", cards |-> <<>>],
      [raised |-> TRUE, stage |-> "close", cards |-> <<RichCard(1, Link(<<IntText(1)>>))>>] }
    \cup { [raised |-> FALSE, stage |-> "done", cards |-> l] : l \in CardLists(MaxItems) }

\* The record of the card at index i of article_cards[:topk].
CardRecord(card, i) ==
    LET cv_id == IF ~card.link.found THEN <<>>
                 ELSE IF card.link.cv # <<>> THEN card.link.cv
                 ELSE <<"cv_", IntText(i)>>
    IN [id |-> cv_id, title |-> card.title, description |-> card.desc, pic |-> card.img,
        reply |-> card.reply, like |-> card.like, author |-> <<>>,
        category |-> card.category,
        url |-> <<"https://www.bilibili.com/read/cv">> \o cv_id]

HasTitle(record) == record.title # <<>>

_async_parse_article_search(cards, topk) ==
    LET article_cards == PySlicePrefix(cards, topk)
        records == [i \in 1..Len(article_cards) |-> CardRecord(article_cards[i], i - 1)]
    IN SelectSeq(records, HasTitle)

_async_search_articles(b, topk) ==
    IF b.raised THEN _get_mock_article_data(topk)
    ELSE LET results == _async_parse_article_search(b.cards, topk)
         IN IF results # <<>>
            THEN [success |-> TRUE, data |-> PyList(results), method |-> "script"]
            ELSE _get_mock_article_data(topk)

(***************************************************************************)
(* get_article.                                                            *)
(***************************************************************************)
\* The blocks of an article's content segment, in page order: a paragraph
\* with or without text, a picture block holding an image, and an image
\* outside a picture block, with or without loading="lazy": one with the
\* long URL of an article image, one with a short URL, one whose URL holds
\* "face".  n is the block's position in the segment.
ImageHost == "i0.hdslb.com/bfs/"
LongName == "0123456789abcdef0123456789abcdef"

Paragraph(n) == [tag |-> "p", text |-> <<"text", n>>]
EmptyParagraph == [tag |-> "p", text |-> <<>>]
PicBlock(n) == [tag |-> "pic", url |-> "//" \o ImageHost \o "new_dyn/pic" \o IntText(n) \o ".png"]
BareImg(n, lazy) ==
    [tag |-> "img",
     url |-> "https://" \o ImageHost \o "article/" \o LongName \o "/img" \o IntText(n) \o ".png",
     lazy |-> lazy]
ShortImg(n) ==
    [tag |-> "img", url |-> "https://" \o ImageHost \o "img" \o IntText(n) \o ".png",
     lazy |-> TRUE]
FaceImg(n) ==
    [tag |-> "img",
     url |-> "https://" \o ImageHost \o "face/" \o LongName \o "/img" \o IntText(n) \o ".png",
     lazy |-> FALSE]

Blocks(n) == { Paragraph(n), EmptyParagraph, PicBlock(n), BareImg(n, TRUE), BareImg(n, FALSE),
               ShortImg(n), FaceImg(n) }

RECURSIVE BlockLists(_)
BlockLists(len) ==
    IF len = 0 THEN { <<>> }
    ELSE LET shorter == BlockLists(len - 1)
         IN shorter \cup { Append(l, e) : l \in { x \in shorter : Len(x) = len - 1 },
                                          e \in Blocks(len) }

\* What the patterns outside the content segment find in a page: the author
\* name, the src of the first image with the bmgOnLoad handler, the time of
\* publication, the texts of the tag items stripped of blanks (<<>> for a
\* blank one) and the five counters of the side toolbar.
NoMeta ==
    [author |-> <<>>, author_avatar |-> <<>>, publish_time |-> <<>>, tags |-> <<>>,
     like_count |-> 0, coin_count |-> 0, favorite_count |-> 0, share_count |-> 0,
     comment_count |-> 0]

FullMeta ==
    [author |-> <<"an author">>, author_avatar |-> <<"//i0.hdslb.com/bfs/face/a.jpg">>,
     publish_time |-> <<"2024-01-01 12:00">>,
     tags |-> << <<"tag1">>, <<>>, <<"tag2">> >>,
     like_count |-> 12, coin_count |-> 2, favorite_count |-> 5, share_count |-> 1,
     comment_count |-> 3]

\* An article page, by what the patterns find in it; segment tells whether
\* both markers of the content segment are there.
ArticleCores ==
    [is404 : BOOLEAN, title : {<<>>, <<"an article">>}, segment : {FALSE}, content : {<<>>}]
    \cup [is404 : {FALSE}, title : {<<"an article">>}, segment : {TRUE},
          content : BlockLists(MaxItems)]

ArticlePages ==
    { core @@ NoMeta : core \in ArticleCores }
    \cup { core @@ FullMeta : core \in { c \in ArticleCores : Len(c.content) <= 1 } }

IsTextParagraph(b) == b.tag = "p" /\ b.text # <<>>
StartsWithSlashesOrHttp(url) == StartsWith(url, "//") \/ StartsWith(url, "http")
IsPicImage(b) == b.tag = "pic" /\ StartsWithSlashesOrHttp(b.url)

\* The filter of _extract_images_fallback on the URL of an image.
MinImageUrlLen == 50
AvatarWords == {"face", "avatar", "icon", "logo"}
IsArticleImageUrl(url) ==
    /\ StartsWithSlashesOrHttp(url)
    /\ \A w \in AvatarWords : ~InText(url, w)
    /\ Len(url) > MinImageUrlLen

IsLazyImage(b) == b.tag = "img" /\ b.lazy /\ IsArticleImageUrl(b.url)
IsImage(b) == b.tag \in {"pic", "img"} /\ IsArticleImageUrl(b.url)

\* The images _extract_images_fallback appends: those of the first pattern
\* that leaves any after the filter.
_extract_images_fallback(html) ==
    IF SelectSeq(html, IsLazyImage) # <<>> THEN SelectSeq(html, IsLazyImage)
    ELSE SelectSeq(html, IsImage)

TextEntry(b) == [type |-> "text", content |-> b.text]
ImageEntry(b, index) == [type |-> "image", url |-> b.url, index |-> index]

\* _parse_content_structure: the entries of the paragraphs, then the entries
\* of the images; text stands for the paragraphs joined by blank lines.
_parse_content_structure(html) ==
    LET paragraphs == SelectSeq(html, IsTextParagraph)
        img_blocks == SelectSeq(html, IsPicImage)
        found == IF img_blocks # <<>> THEN img_blocks ELSE _extract_images_fallback(html)
    IN [text |-> [i \in 1..Len(paragraphs) |-> paragraphs[i].text],
        images |-> [i \in 1..Len(found) |-> found[i].url],
        structure |-> [i \in 1..Len(paragraphs) |-> TextEntry(paragraphs[i])]
                      \o [i \in 1..Len(found) |-> ImageEntry(found[i], i - 1)]]

NonBlank(tag) == tag # <<>>

_parse_article_content(pg) ==
    LET article_info ==
          [cv_id |-> "<cv_id>", title |-> pg.title, author |-> pg.author,
           author_avatar |-> pg.author_avatar, publish_time |-> pg.publish_time,
           content |-> <<>>, images |-> <<>>, tags |-> SelectSeq(pg.tags, NonBlank),
           like_count |-> pg.like_count, comment_count |-> pg.comment_count,
           share_count |-> pg.share_count, coin_count |-> pg.coin_count,
           favorite_count |-> pg.favorite_count,
           url |-> <<"https://www.bilibili.com/read/cv", "<cv_id>">>]
        content_data == _parse_content_structure(pg.content)
    IN IF pg.segment
       THEN [content |-> content_data.text, images |-> content_data.images,
             content_structure |-> content_data.structure] @@ article_info
       ELSE article_info

\* get_article without its try/except.
GetArticleNoCatch(r) == r

\* except Exception of get_article and _get_article_info_script_method.
GetArticleCatch(r) ==
    IF IsRaise(r) THEN Ret(ResponseFormatter_error(r.msg, NoneData)) ELSE r

\* _get_article_info_script_method once the identifier has passed validation.
GetArticleScript(cv_id, resp) ==
    IF resp.net = "http" /\ resp.status = 404
    THEN Ret(ResponseFormatter_error(MsgArticleMissing, NoneData))
    ELSE IF resp.net = "http" /\ resp.status = 403
    THEN Ret(ResponseFormatter_error(MsgArticleDenied, NoneData))
    ELSE LET r == GetAndRaiseForStatus(ArticleUrl(cv_id), resp, PageTimeout)
         IN IF IsRaise(r) THEN GetArticleCatch(r)
            ELSE IF r.v.is404
            THEN Ret(ResponseFormatter_error(MsgArticleMissing, NoneData))
            ELSE LET article_info == _parse_article_content(r.v)
                 IN IF article_info.title = <<>>
                    THEN Ret(ResponseFormatter_error(MsgArticleExtractFailed, NoneData))
                    ELSE Ret(ResponseFormatter_success(PyDict(article_info), "script"))

(***************************************************************************)
(* The MCP tool wrapper.                                                   *)
(***************************************************************************)
_format_response(result, kwargs) ==
    IF result.success
    THEN kwargs @@ [success |-> TRUE,
                    method |-> DictGet(result, "method", "unknown"),
                    total |-> IF result.data.t = "list" THEN Len(result.data.v) ELSE 1,
                    data |-> result.data]
    ELSE kwargs @@ [success |-> FALSE,
                    error |-> DictGet(result, "error", <<"operation failed">>)]

_handle_error(r, kwargs) == kwargs @@ [success |-> FALSE, error |-> r.msg]

\* r is what the client method gave: its envelope, or an exception.
_execute_tool(r, kwargs) ==
    IF IsRaise(r) THEN Ret(_handle_error(r, kwargs))
    ELSE Ret(_format_response(r.v, kwargs))

\* The keyword arguments each tool passes to _execute_tool.
ToolKwargs(c) ==
    CASE c.op = "search_videos" -> [keyword |-> Text(Keyword), search_type |-> "video"]
      [] c.op = "search_articles" -> [keyword |-> Text(Keyword), search_type |-> "article"]
      [] c.op = "get_danmaku" -> [bvid |-> c.bvid, cid |-> c.cid]
      [] c.op = "get_article" -> [cv_id |-> c.cv_id]
      [] OTHER -> [bvid |-> c.bvid]

(***************************************************************************)
(* Initial state and the steps shared by the operations.                   *)
(***************************************************************************)
Init ==
    /\ cookies \in CookieInputs
    /\ playwright \in BOOLEAN
    /\ pc = "idle"
    /\ call = NoCall
    /\ mode = "none"
    /\ src = NoSource
    /\ netlog = <<>>
    /\ aid = PyNone
    /\ comments = <<>>
    /\ page = 0
    /\ main_comments = <<>>
    /\ processed = <<>>
    /\ tasks = <<>>
    /\ cid = PyNone
    /\ ret = NoValue
    /\ tool = NoValue
    /\ cookie_file = NoValue

\* The operation hands r, an envelope or an exception, to its caller.
Return(r) == ret' = r /\ pc' = "returned"

\* The pause, in milliseconds, that the code takes right before it sends a
\* request: asyncio.sleep / time.sleep ahead of session.get in the two
\* transports and in the page fetches of the script paths.  Nothing pauses
\* ahead of the danmaku request and ahead of the browser's page.goto.
AsyncRequestDelay == 500
SyncRequestDelay == 1000
SearchPageDelay == 1500
VideoPageDelay == 1000
ArticlePageDelay == 1000
DanmakuRequestDelay == 0
BrowserGotoDelay == 0

PreRequestDelay(ep, m) ==
    CASE ep = "search page" -> SearchPageDelay
      [] ep = "video page" -> VideoPageDelay
      [] ep = "article page" -> ArticlePageDelay
      [] ep = "dm/list.so" -> DanmakuRequestDelay
      [] ep = "article search page" -> BrowserGotoDelay
      [] OTHER -> IF m = "async" THEN AsyncRequestDelay ELSE SyncRequestDelay

\* A request as it is issued: its endpoint and parameters, whether it was
\* answered, and the pause taken right before it.
Request(ep, pn, ps, root, ok) ==
    [ep |-> ep, pn |-> pn, ps |-> ps, root |-> root, ok |-> ok,
     delay |-> PreRequestDelay(ep, mode)]

Transport(m, url, resp, timeout) ==
    IF m = "async" THEN _make_request_async(url, resp) ELSE _make_request(url, resp, timeout)

\* except Exception of get_comments, _get_comments_sync and _get_comments_async.
GetCommentsCatch(r) ==
    IF IsRaise(r) THEN Ret(ResponseFormatter_error(r.msg, EmptyListData)) ELSE r

(***************************************************************************)
(* get_comments.                                                           *)
(***************************************************************************)
\* The guard written as "cookies is None".
CookiesIsNone(c) == c = PyNone

\* The guard of get_comments on the client's credential.
CookiesMissing(c) == ~Truthy(c)

Call_get_comments ==
    /\ pc = "idle"
    /\ \E bvid \in BvidInputs, topk \in TopkInputs \cup {LargeCount}, inc \in BOOLEAN,
          rc \in ReplyCountInputs :
         /\ call' = [op |-> "get_comments", bvid |-> bvid, topk |-> topk,
                     include_replies |-> inc, reply_count |-> rc]
         /\ IF CookiesMissing(cookies)
            THEN /\ Return(Ret(ResponseFormatter_error(MsgCookiesRequired, EmptyListData)))
                 /\ mode' = mode
            ELSE IF ~is_valid_bvid(bvid)
            THEN /\ Return(GetCommentsCatch(
                        Ret(ResponseFormatter_error(MsgInvalidBvidPlain, EmptyListData))))
                 /\ mode' = mode
            ELSE \E running \in BOOLEAN :
                   /\ mode' = IF running THEN "sync" ELSE "async"
                   /\ pc' = "gc_aid"
                   /\ ret' = ret
    /\ UNCHANGED <<client, src, netlog, locals, tool>>

\* The rest of _get_comments_sync / _get_comments_async once the primary
\* comments mc are known.
AfterMain(mc) ==
    LET maxr == MaxRepliesPerComment(mode, call.reply_count)
        first == NextFetchIndex(mc, 1)
        ts == MakeTasks(mc, maxr)
    IN /\ main_comments' = mc
       /\ IF mc = <<>>
          THEN /\ Return(GetCommentsCatch(Ret(ResponseFormatter_success(PyList(<<>>), "api"))))
               /\ processed' = <<>> /\ tasks' = <<>>
          ELSE IF ~call.include_replies
          THEN /\ Return(GetCommentsCatch(
                      Ret(ResponseFormatter_success(PyList(AssemblePlain(mc)), "api"))))
               /\ processed' = AssemblePlain(mc) /\ tasks' = <<>>
          ELSE IF mode = "sync"
          THEN /\ processed' = PlainRun(mc, 1, first)
               /\ tasks' = <<>>
               /\ IF first > Len(mc)
                  THEN Return(GetCommentsCatch(
                           Ret(ResponseFormatter_success(PyList(PlainRun(mc, 1, first)), "api"))))
                  ELSE pc' = "gc_sub_sync" /\ ret' = ret
          ELSE /\ tasks' = ts
               /\ IF ts = <<>>
                  THEN /\ processed' = <<>>
                       /\ Return(GetCommentsCatch(AssembleWithoutTasks(mc)))
                  ELSE /\ processed' = <<>>
                       /\ pc' = "gc_gather" /\ ret' = ret

GetAid ==
    /\ pc = "gc_aid"
    /\ \E resp \in RawResponses(ViewOks) :
         LET a == IF mode = "async" THEN _get_aid_from_bvid_async(call.bvid, resp)
                  ELSE _get_aid_from_bvid(call.bvid, resp)
             topk == EffectiveTopk(mode, call.topk)
         IN /\ netlog' = Append(netlog, Request("view", 0, 0, 0,
                                       ~IsRaise(Transport(mode, ViewUrl(call.bvid), resp, AidTimeout))))
            /\ aid' = a
            /\ IF ~Truthy(a)
               THEN /\ Return(GetCommentsCatch(Ret(ResponseFormatter_error(MsgNoAid, EmptyListData))))
                    /\ UNCHANGED <<src, comments, page, main_comments, processed, tasks>>
               ELSE \E s \in CommentSources :
                      /\ src' = s
                      /\ comments' = <<>>
                      /\ page' = 1
                      /\ IF MainLoopContinues(mode, <<>>, 1, topk)
                         THEN /\ pc' = "gc_main" /\ ret' = ret
                              /\ UNCHANGED <<main_comments, processed, tasks>>
                         ELSE AfterMain(PySlicePrefix(<<>>, topk))
    /\ UNCHANGED <<client, call, mode, cid, tool>>

\* One pass of a primary-comment loop: the request, its answer, the pause
\* that ends the body and the loop test.  The call has no other coroutine
\* while the primary comments are fetched, so nothing runs in the awaits of
\* the cooperative mode; the pause of the synchronous mode blocks.
FetchMainCommentsPage ==
    /\ pc = "gc_main"
    /\ LET topk == EffectiveTopk(mode, call.topk)
           ps == MainPageSize(mode, topk)
       IN \E resp \in PageResponses(RepliesOk(MainPage(src, page, ps))) :
            LET r == Transport(mode, ReplyMainUrl(aid, page, ps), resp, FastTimeout)
                step == MainStep(mode, r, comments, page, topk)
            IN /\ netlog' = Append(netlog, Request("reply/main", page, ps, 0, ~IsRaise(r)))
               /\ IF step.done
                  THEN /\ AfterMain(step.result)
                       /\ UNCHANGED <<comments, page>>
                  ELSE /\ comments' = step.comments
                       /\ page' = step.page
                       /\ UNCHANGED <<pc, ret, main_comments, processed, tasks>>
    /\ UNCHANGED <<client, call, mode, src, aid, cid, tool>>

FetchSubCommentsFast ==
    /\ pc = "gc_sub_sync"
    /\ LET j == Len(processed) + 1
           c == main_comments[j]
           maxr == MaxRepliesPerComment(mode, call.reply_count)
           ps == Min(maxr, SubPageSizeFastCap)
           nxt == NextFetchIndex(main_comments, j + 1)
       IN \E resp \in PageResponses(RepliesOk(ReplyPage(src, c.rpid, 1, ps))) :
            LET url == ReplyReplyUrl(aid, c.rpid, 1, ps)
                replies == _fetch_sub_comments_fast(url, resp, maxr)
                proc2 == processed \o <<CommentData(c, replies)>>
                            \o PlainRun(main_comments, j + 1, nxt)
            IN /\ netlog' = Append(netlog,
                       Request("reply/reply", 1, ps, c.rpid, ~IsRaise(_make_request(url, resp, FastTimeout))))
               /\ processed' = proc2
               /\ IF nxt > Len(main_comments)
                  THEN Return(GetCommentsCatch(Ret(ResponseFormatter_success(PyList(proc2), "api"))))
                  ELSE UNCHANGED <<pc, ret>>
    /\ UNCHANGED <<client, call, mode, src, aid, comments, page, main_comments, tasks, cid, tool>>

\* A reply coroutine sends its next page request.
SubIssue ==
    /\ pc = "gc_gather"
    /\ \E i \in 1..Len(tasks) :
         /\ tasks[i].st = "ready"
         /\ tasks' = [tasks EXCEPT ![i].st = "inflight", ![i].reqs = @ + 1]
    /\ UNCHANGED <<client, pc, call, mode, src, netlog, aid, comments, page,
                   main_comments, processed, cid, ret, tool>>

\* The answer to a reply coroutine's request arrives and the coroutine runs
\* to its next await or to its return.
SubComplete ==
    /\ pc = "gc_gather"
    /\ \E i \in 1..Len(tasks) :
         /\ tasks[i].st = "inflight"
         /\ \E r \in { _make_request_async(
                             ReplyReplyUrl(aid, tasks[i].rpid, tasks[i].page, SubPageSizeAsync),
                             resp) :
                         resp \in PageResponses(RepliesOk(
                             ReplyPage(src, tasks[i].rpid, tasks[i].page, SubPageSizeAsync))) } :
              tasks' = [tasks EXCEPT ![i] =
                          SubStepAsync(tasks[i], r,
                                       MaxRepliesPerComment(mode, call.reply_count))]
    /\ UNCHANGED <<client, pc, call, mode, src, netlog, aid, comments, page,
                   main_comments, processed, cid, ret, tool>>

\* The sleep that ends a pass of a reply coroutine's loop is over.
SubResume ==
    /\ pc = "gc_gather"
    /\ \E i \in 1..Len(tasks) :
         /\ tasks[i].st = "paused"
         /\ tasks' = [tasks EXCEPT ![i] =
                        SubLoopTest(tasks[i], MaxRepliesPerComment(mode, call.reply_count))]
    /\ UNCHANGED <<client, pc, call, mode, src, netlog, aid, comments, page,
                   main_comments, processed, cid, ret, tool>>

\* gather returns once every coroutine has finished.
GatherReplies ==
    /\ pc = "gc_gather"
    /\ \A i \in 1..Len(tasks) : tasks[i].st = "done"
    /\ processed' = AssembleAsync(main_comments, tasks)
    /\ Return(GetCommentsCatch(
           Ret(ResponseFormatter_success(PyList(AssembleAsync(main_comments, tasks)), "api"))))
    /\ UNCHANGED <<client, call, mode, src, netlog, aid, comments, page,
                   main_comments, tasks, cid, tool>>

(***************************************************************************)
(* get_video_info.                                                         *)
(***************************************************************************)
Call_get_video_info ==
    /\ pc = "idle"
    /\ \E bvid \in VideoInfoBvidInputs, method \in {"api", "script"} :
         /\ call' = [op |-> "get_video_info", bvid |-> bvid, method |-> method]
         /\ IF ~is_valid_bvid(bvid)
            THEN IF method = "script"
                 THEN Return(ScriptVideoCatch(
                          Ret([success |-> FALSE, error |-> MsgInvalidBvid, data |-> PyNone])))
                 ELSE Return(GetVideoInfoCatch(
                          Ret(ResponseFormatter_error(MsgInvalidBvid, NoneData))))
            ELSE /\ pc' = IF method = "script" THEN "vi_script" ELSE "vi_api"
                 /\ ret' = ret
    /\ UNCHANGED <<client, mode, src, netlog, locals, tool>>

VideoInfoApiRequest ==
    /\ pc = "vi_api"
    /\ \E resp \in RawResponses(ViewOks) \cup VideoInfoFailures :
         /\ netlog' = Append(netlog, Request("view", 0, 0, 0,
                                       ~IsRaise(_make_request(ViewUrl(call.bvid), resp, DefaultTimeout))))
         /\ Return(GetVideoInfoApi(call.bvid, resp))
    /\ UNCHANGED <<client, call, mode, src, locals, tool>>

VideoInfoScriptRequest ==
    /\ pc = "vi_script"
    /\ \E resp \in DirectResponses(VideoPages) \cup VideoInfoFailures :
         /\ netlog' = Append(netlog,
                Request("video page", 0, 0, 0,
                        ~IsRaise(GetAndRaiseForStatus(VideoPageUrl(call.bvid), resp, PageTimeout))))
         /\ src' = resp
         /\ Return(GetVideoInfoScript(call.bvid, resp))
    /\ UNCHANGED <<client, call, mode, locals, tool>>

(***************************************************************************)
(* get_danmaku.                                                            *)
(***************************************************************************)
\* The second test of cid, before the danmaku request.
AfterCid(c) ==
    IF ~Truthy(c)
    THEN Return(GetDanmakuCatch(Ret(ResponseFormatter_error(MsgNoCid, NoneData))))
    ELSE pc' = "dm_fetch" /\ ret' = ret

Call_get_danmaku ==
    /\ pc = "idle"
    /\ \E bvid \in BvidInputsWithNewline, c \in CidInputs :
         /\ call' = [op |-> "get_danmaku", bvid |-> bvid, cid |-> c]
         /\ IF ~Truthy(c)
            THEN IF ~is_valid_bvid(bvid)
                 THEN /\ Return(GetDanmakuCatch(Ret(DanmakuInfoError(
                                 ResponseFormatter_error(MsgInvalidBvid, NoneData)))))
                      /\ cid' = c
                 ELSE /\ pc' = "dm_info"
                      /\ cid' = c
                      /\ ret' = ret
            ELSE /\ cid' = c
                 /\ AfterCid(c)
    /\ UNCHANGED <<client, mode, src, netlog, aid, comments, page, main_comments,
                   processed, tasks, tool>>

\* The video-info lookup of get_danmaku; the cid is the fixed placeholder.
DanmakuInfoRequest ==
    /\ pc = "dm_info"
    /\ \E resp \in RawResponses(ViewOks) \cup VideoInfoFailures :
         LET video_info == GetVideoInfoApi(call.bvid, resp).v
         IN /\ netlog' = Append(netlog, Request("view", 0, 0, 0,
                                          ~IsRaise(_make_request(ViewUrl(call.bvid), resp, DefaultTimeout))))
            /\ src' = resp
            /\ IF ~video_info.success
               THEN /\ Return(GetDanmakuCatch(Ret(DanmakuInfoError(video_info))))
                    /\ cid' = cid
               ELSE /\ cid' = PlaceholderCid
                    /\ AfterCid(PlaceholderCid)
    /\ UNCHANGED <<client, call, mode, aid, comments, page, main_comments,
                   processed, tasks, tool>>

DanmakuRequest ==
    /\ pc = "dm_fetch"
    /\ \E resp \in DirectResponses(DanmakuPages) :
         /\ netlog' = Append(netlog,
                Request("dm/list.so", 0, 0, 0,
                        ~IsRaise(GetAndRaiseForStatus(DanmakuUrl(cid), resp, DanmakuTimeout))))
         /\ Return(FetchDanmaku(resp, call.bvid, cid))
    /\ UNCHANGED <<client, call, mode, src, locals, tool>>

(***************************************************************************)
(* search_videos and search_articles.                                      *)
(***************************************************************************)
Call_search_videos ==
    /\ pc = "idle"
    /\ \E topk \in TopkInputs, method \in {"api", "script"} :
         /\ call' = [op |-> "search_videos", topk |-> topk, method |-> method]
         /\ pc' = IF method = "script" THEN "sv_script" ELSE "sv_api"
    /\ UNCHANGED <<client, mode, src, netlog, locals, ret, tool>>

SearchVideosApiRequest ==
    /\ pc = "sv_api"
    /\ \E resp \in RawResponses(SearchOks) :
         /\ src' = resp
         /\ netlog' = Append(netlog, Request("search/all/v2", 1, 20, 0,
                                       ~IsRaise(_make_request(SearchApiUrl, resp, DefaultTimeout))))
         /\ Return(SearchVideosApi(resp, call.topk))
    /\ UNCHANGED <<client, call, mode, locals, tool>>

SearchVideosScriptRequest ==
    /\ pc = "sv_script"
    /\ \E resp \in DirectResponses(SearchPages) :
         /\ src' = resp
         /\ netlog' = Append(netlog,
                Request("search page", 0, 0, 0,
                        ~IsRaise(GetAndRaiseForStatus(SearchPageUrl, resp, PageTimeout))))
         /\ Return(_search_videos_script_method(resp, call.topk))
    /\ UNCHANGED <<client, call, mode, locals, tool>>

\* _search_articles_script_method without Playwright returns the mock data
\* at once; with it, the browser runs next.
Call_search_articles ==
    /\ pc = "idle"
    /\ \E topk \in ArticleTopkInputs :
         /\ call' = [op |-> "search_articles", topk |-> topk]
         /\ IF ~playwright
            THEN /\ Return(SearchCatch(Ret(_get_mock_article_data(topk))))
                 /\ mode' = mode
            ELSE \E running \in BOOLEAN :
                   /\ mode' = IF running THEN "thread" ELSE "async"
                   /\ pc' = "sa_browser"
                   /\ ret' = ret
    /\ UNCHANGED <<client, src, netlog, locals, tool>>

\* asyncio.run(_async_search_articles(...)), in a worker thread when a loop
\* is already running.
SearchArticlesBrowser ==
    /\ pc = "sa_browser"
    /\ \E b \in BrowserOutcomes :
         /\ src' = b
         /\ netlog' = IF b.stage = "launch" THEN netlog
                      ELSE Append(netlog, Request("article search page", 0, 0, 0,
                                                  b.stage # "goto"))
         /\ Return(SearchCatch(Ret(_async_search_articles(b, call.topk))))
    /\ UNCHANGED <<client, call, mode, locals, tool>>

(***************************************************************************)
(* get_article.                                                            *)
(***************************************************************************)
Call_get_article ==
    /\ pc = "idle"
    /\ \E cv_id \in CvIdInputs :
         /\ call' = [op |-> "get_article", cv_id |-> cv_id]
         /\ IF ~is_valid_cv_id(cv_id)
            THEN Return(GetArticleCatch(Ret(ResponseFormatter_error(MsgInvalidCvId, NoneData))))
            ELSE pc' = "ar_fetch" /\ ret' = ret
    /\ UNCHANGED <<client, mode, src, netlog, locals, tool>>

ArticleRequest ==
    /\ pc = "ar_fetch"
    /\ \E resp \in DirectResponses(ArticlePages) :
         /\ netlog' = Append(netlog,
                Request("article page", 0, 0, 0,
                        ~IsRaise(GetAndRaiseForStatus(ArticleUrl(call.cv_id), resp, PageTimeout))))
         /\ src' = resp
         /\ Return(GetArticleCatch(GetArticleScript(call.cv_id, resp)))
    /\ UNCHANGED <<client, call, mode, locals, tool>>

(***************************************************************************)
(* The MCP tool returns.                                                   *)
(***************************************************************************)
(***************************************************************************)
(* cookies_tool.save_bilibili_cookies: the browser opens the site and the  *)
(* user logs in; if that raises nothing is written, else the cookies of    *)
(* the browser context are sanitized and dumped to the cookie file.        *)
(***************************************************************************)
Call_save_bilibili_cookies ==
    /\ pc = "idle"
    /\ call' = [op |-> "save_bilibili_cookies"]
    /\ \E opened \in BOOLEAN, raw \in CookieLists(MaxCookies) :
         IF opened
         THEN /\ src' = [kind |-> "browser cookies", cookies |-> raw,
                         after |-> SanitizeLeavesInput(raw)]
              /\ cookie_file' = Ret(CookiesToSave(raw))
         ELSE /\ src' = src
              /\ cookie_file' = cookie_file
    /\ pc' = "exited"
    /\ UNCHANGED <<cookies, playwright, mode, netlog, locals, ret, tool>>

ToolReturn ==
    /\ pc = "returned"
    /\ tool' = _execute_tool(ret, ToolKwargs(call))
    /\ pc' = "done"
    /\ UNCHANGED <<client, call, mode, src, netlog, locals, ret>>

Next ==
    \/ Call_get_comments
    \/ GetAid
    \/ FetchMainCommentsPage
    \/ FetchSubCommentsFast
    \/ SubIssue
    \/ SubComplete
    \/ SubResume
    \/ GatherReplies
    \/ Call_get_video_info
    \/ VideoInfoApiRequest
    \/ VideoInfoScriptRequest
    \/ Call_get_danmaku
    \/ DanmakuInfoRequest
    \/ DanmakuRequest
    \/ Call_search_videos
    \/ SearchVideosApiRequest
    \/ SearchVideosScriptRequest
    \/ Call_search_articles
    \/ SearchArticlesBrowser
    \/ Call_get_article
    \/ ArticleRequest
    \/ Call_save_bilibili_cookies
    \/ ToolReturn

Spec == Init /\ [][Next]_vars


(***************************************************************************)
(* Properties.                                                             *)
(***************************************************************************)
Returned == pc \in {"returned", "done"}
ReturnedEnvelope == Returned /\ ret.k = "ret"
LastRequestFailed == netlog # <<>> /\ ~netlog[Len(netlog)].ok

DataPopulated(e) == "data" \in DOMAIN e /\ e.data \notin {PyNone, PyList(<<>>)}
ErrorPopulated(e) == "error" \in DOMAIN e /\ e.error # <<>>

\* C1: every envelope a public operation returns has, when success is
\* false, data null or the empty list and a non-empty error, and, when
\* success is true, no error field.
C1_EnvelopeInvariant ==
    ReturnedEnvelope =>
        IF ret.v.success
        THEN "error" \notin DOMAIN ret.v
        ELSE /\ "data" \in DOMAIN ret.v
             /\ ret.v.data \in {PyNone, PyList(<<>>)}
             /\ ErrorPopulated(ret.v)

\* The page fetch of get_video_info by script has failed and has produced an error envelope.
C1_Witness ==
    /\ ReturnedEnvelope
    /\ call.op = "get_video_info" /\ call.method = "script"
    /\ LastRequestFailed
    /\ ~ret.v.success /\ ret.v.data = PyNone

\* C2 as stated: exactly one of data and error is populated, and success is
\* true exactly when it is data.
C2_ExactlyOnePopulated ==
    ReturnedEnvelope =>
        /\ DataPopulated(ret.v) # ErrorPopulated(ret.v)
        /\ ret.v.success <=> DataPopulated(ret.v)

\* C2 as the code has it: error is populated exactly when success is false,
\* data is populated only when success is true, and a success envelope whose
\* data is not populated carries the empty list.
C2_ErrorIffFailure ==
    ReturnedEnvelope =>
        /\ ErrorPopulated(ret.v) <=> ~ret.v.success
        /\ DataPopulated(ret.v) => ret.v.success
        /\ (ret.v.success /\ ~DataPopulated(ret.v)) => ret.v.data = PyList(<<>>)

\* get_comments has returned for a video with zero comments, every request
\* having succeeded.
C2_Witness ==
    /\ ReturnedEnvelope
    /\ call.op = "get_comments"
    /\ src # NoSource /\ src.total = 0
    /\ \A i \in 1..Len(netlog) : netlog[i].ok
    /\ ret.v.success /\ ret.v.data = PyList(<<>>)

\* C3: no public operation and no tool wrapper lets an exception reach its
\* caller: whatever the fetches gave, the call returns one envelope.
C3_NoExceptionPropagates ==
    /\ Returned => (ret.k = "ret" /\ "success" \in DOMAIN ret.v)
    /\ pc = "done" => (tool.k = "ret" /\ "success" \in DOMAIN tool.v)

\* A tool has returned its envelope after the fetch of the article failed.
C3_Witness ==
    /\ pc = "done"
    /\ call.op = "get_article"
    /\ LastRequestFailed
    /\ tool.k = "ret" /\ ~tool.v.success


IsPageRequest(q) == q.ep \in {"reply/main", "reply/reply"}

\* C4 as stated: when the single fetch of an operation fails, or the first
\* primary-comment page fetch of get_comments fails, the call ends with an
\* error envelope.  search_articles, whose placeholder answer to a failed
\* browser run is its declared degraded mode, is left out of the statement.
C4_FetchFailureIsError ==
    (ReturnedEnvelope
       /\ call.op # "search_articles"
       /\ \E i \in 1..Len(netlog) :
            /\ ~netlog[i].ok
            /\ ~IsPageRequest(netlog[i]) \/ (netlog[i].ep = "reply/main" /\ netlog[i].pn = 1))
    => (~ret.v.success /\ ErrorPopulated(ret.v))

\* C5: get_comments on a client without cookies issues no request and
\* returns the error that says cookies are required, whatever its arguments.
C5_CookiesRequired ==
    (call.op = "get_comments" /\ ~Truthy(cookies)) =>
        /\ netlog = <<>>
        /\ ReturnedEnvelope
        /\ ~ret.v.success
        /\ ret.v.error = MsgCookiesRequired

\* get_comments has returned to a client built with the empty cookie string,
\* asked for a well-formed identifier with replies.
C5_Witness ==
    /\ ReturnedEnvelope
    /\ call.op = "get_comments"
    /\ cookies = PyStr(<<>>)
    /\ is_valid_bvid(call.bvid) /\ call.include_replies /\ call.topk > 0
    /\ ret.v.error = MsgCookiesRequired

\* The identifier of the call in progress is one the validator rejects.
MalformedIdentifier ==
    \/ call.op \in {"get_video_info", "get_comments", "get_danmaku"} /\ ~is_valid_bvid(call.bvid)
    \/ call.op = "get_article" /\ ~is_valid_cv_id(call.cv_id)

\* C6 as stated: a malformed identifier yields an error envelope and no
\* request is issued, in every operation that takes an identifier,
\* get_danmaku with a supplied cid included.
C6_MalformedIdentifierNoRequest ==
    MalformedIdentifier =>
        /\ netlog = <<>>
        /\ ReturnedEnvelope => ~ret.v.success

\* The records the search source holds, in source order: what the parse
\* gives when the requested count does not limit it.
AllMatches ==
    CASE call.op = "search_videos" /\ call.method = "api" ->
           ProcessSearchItems(SearchResultsOf(DictGet(src.body.d, "data", EmptyDict)),
                              1, <<>>, 3 * MaxItems)
      [] call.op = "search_videos" /\ call.method = "script" ->
           _parse_video_search(src.body, Len(src.body.cands))
      [] OTHER -> _async_parse_article_search(src.cards, Len(src.cards))

\* C7 as stated: the list a search returns is the first min(K, M) of the M
\* matching results of the source, in source order; placeholder articles
\* number min(K, 5).
C7_SearchTruncation ==
    (ReturnedEnvelope /\ call.op \in {"search_videos", "search_articles"}
       /\ ret.v.success /\ call.topk >= 0)
    => IF src # NoSource /\ AllMatches # <<>>
       THEN ret.v.data.v = SubSeq(AllMatches, 1, Min(call.topk, Len(AllMatches)))
       ELSE call.op = "search_articles" => Len(ret.v.data.v) = Min(call.topk, MockMax)


(***************************************************************************)
(* Properties of get_comments.                                             *)
(***************************************************************************)
IsMainRequest(q) == q.ep = "reply/main"
MainRequests == SelectSeq(netlog, IsMainRequest)
InComments == call.op = "get_comments" /\ src # NoSource

\* The number of items on the pages before page k, for the page size the
\* requests ask for.
ServedBefore(k) ==
    Min((k - 1) * ServedPageSize(src, MainRequests[1].ps), src.total)

\* The contents of the primary comments of the returned envelope.
ReturnedContents == [i \in 1..Len(ret.v.data.v) |-> ret.v.data.v[i].content]
FirstItems(n) == [i \in 1..Max(0, n) |-> i]

\* Pages are requested as 1, 2, 3, ..., none after an empty page, after a
\* failed one, or once the requested count is reached.
PagesInOrderUntilDone ==
    InComments =>
        \A k \in 1..Len(MainRequests) :
            /\ MainRequests[k].pn = k
            /\ ServedBefore(k) < call.topk
            /\ \A j \in 1..(k - 1) :
                 MainRequests[j].ok /\ MainPage(src, j, MainRequests[j].ps) # <<>>

\* The primary-comment fetch has returned and none of its requests failed.
EveryPageArrived ==
    /\ InComments /\ pc # "gc_main"
    /\ \A k \in 1..Len(MainRequests) : MainRequests[k].ok

\* The contents of the comments the primary-comment fetch returned.
FetchedContents == [i \in 1..Len(main_comments) |-> main_comments[i].message]

\* C8 as stated: pages are requested in order until the first empty page or
\* the requested count, and the fetch returns the first min(requested, total)
\* items in source order, none twice.
C8_PaginationReturnsMin ==
    /\ PagesInOrderUntilDone
    /\ EveryPageArrived => FetchedContents = FirstItems(Min(call.topk, src.total))

\* What the page bound of the synchronous mode leaves of the source.
WithinPageBound ==
    IF mode = "sync"
    THEN Min(Min(src.total, SyncTopkCap),
             FastMaxPages * ServedPageSize(src, Min(call.topk, FastPageSizeCap)))
    ELSE src.total

\* C8 as the code has it: pages are requested in order until the first empty
\* page or the requested count; the cooperative mode returns the first
\* min(requested, total) items, the synchronous mode the first
\* min(requested, 100, total, what three pages hold), in source order.
C8_PaginationReturnsMinWithinBound ==
    /\ PagesInOrderUntilDone
    /\ EveryPageArrived => FetchedContents = FirstItems(Min(call.topk, WithinPageBound))

\* The cooperative mode has fetched three comments, asked for four, after
\* two pages of the source and an empty third one.
C8_Witness ==
    /\ EveryPageArrived
    /\ mode = "async"
    /\ call.topk = 4 /\ src.total = 3 /\ src.srvPage = 2
    /\ Len(MainRequests) = 3
    /\ Len(main_comments) = 3

\* C9 as stated: when a page fetch fails after earlier pages were
\* accumulated, get_comments returns a success envelope with the comments of
\* those pages.
C9_PartialResultsKept ==
    (ReturnedEnvelope /\ InComments
       /\ Len(MainRequests) >= 2 /\ ~MainRequests[Len(MainRequests)].ok)
    => /\ ret.v.success
       /\ ReturnedContents = FirstItems(ServedBefore(Len(MainRequests)))

\* The position of the primary comment a reply coroutine was started for.
ParentOf(t) == CHOOSE p \in 1..Len(main_comments) : DictGet(main_comments[p], "rpid", 0) = t.rpid

\* The replies the source holds for a parent, cut to the requested number.
RequestedReplies(rpid) ==
    LET max_replies == MaxRepliesPerComment(mode, call.reply_count)
    IN [j \in 1..Max(0, Min(max_replies, ThreadReplies(rpid))) |->
          ProcessReply(SourceReply(rpid, j))]

GatheredWithReplies ==
    /\ ReturnedEnvelope /\ InComments
    /\ mode = "async" /\ call.include_replies /\ tasks # <<>>

\* C10: in the concurrent mode a failed reply sub-fetch empties the reply
\* list of its own parent only: the call succeeds with every primary
\* comment, and every other parent has the replies the source holds for it.
C10_SubFetchFailureIsolated ==
    GatheredWithReplies =>
        /\ ret.v.success
        /\ ReturnedContents = [p \in 1..Len(main_comments) |-> main_comments[p].message]
        /\ \A i \in 1..Len(tasks) :
             ret.v.data.v[ParentOf(tasks[i])].replies =
                 IF tasks[i].failed THEN <<>> ELSE RequestedReplies(tasks[i].rpid)

\* One reply sub-fetch has failed and another parent has its replies.
C10_Witness ==
    /\ GatheredWithReplies
    /\ \E i, j \in 1..Len(tasks) :
         /\ tasks[i].failed
         /\ ~tasks[j].failed
         /\ ret.v.data.v[ParentOf(tasks[i])].replies = <<>>
         /\ ret.v.data.v[ParentOf(tasks[j])].replies # <<>>

\* The bound N of a reply list: reply_count capped by the mode's maximum,
\* and never below zero.
ReplyBound == Max(0, MaxRepliesPerComment(mode, call.reply_count))

IsReplyRequestFor(rpid, q) == q.ep = "reply/reply" /\ q.root = rpid

\* The number of reply-page requests the sequential mode has sent for a parent.
RECURSIVE ReplyRequestCount(_, _)
ReplyRequestCount(rpid, log) ==
    IF log = <<>> THEN 0
    ELSE (IF IsReplyRequestFor(rpid, Head(log)) THEN 1 ELSE 0)
           + ReplyRequestCount(rpid, Tail(log))

ReturnedWithReplies ==
    /\ ReturnedEnvelope /\ InComments
    /\ call.include_replies /\ ret.v.success

\* C11 as stated: when replies are requested, a parent comment that has
\* replies triggers one reply-page request (no second page is asked for),
\* and the reply list attached to it has at most N entries, N being
\* reply_count capped by the mode's maximum and never below zero, for every
\* reply_count and in both modes.
C11_ReplyFetchBounded ==
    /\ (InComments /\ mode = "async") =>
          \A i \in 1..Len(tasks) :
             /\ tasks[i].reqs <= 1
             /\ Len(tasks[i].replies) <= ReplyBound
    /\ ReturnedWithReplies =>
          \A p \in 1..Len(main_comments) :
             NeedsSubFetch(main_comments[p]) =>
                /\ Len(ret.v.data.v[p].replies) <= ReplyBound
                /\ mode = "sync" => ReplyRequestCount(main_comments[p].rpid, netlog) = 1

ReturnedArticles == ReturnedEnvelope /\ call.op = "search_articles"

\* search_articles ran without browser automation, the browser raised, or
\* the result page yielded no record.
Degraded ==
    \/ ~playwright
    \/ IF src = NoSource THEN FALSE
       ELSE src.raised \/ _async_parse_article_search(src.cards, call.topk) = <<>>

\* The record's title and author both start with the marker.
IsMarked(record) ==
    /\ record.title # <<>> /\ Head(record.title) = "[mock data] "
    /\ record.author # <<>> /\ Head(record.author) = "[mock] "

\* Every returned record is a marked placeholder in degraded mode, and no
\* returned record is marked otherwise; the placeholders are the ones the
\* requested count determines.
PlaceholdersMarked ==
    ReturnedArticles =>
        /\ ret.v.success
        /\ \A i \in 1..Len(ret.v.data.v) : IsMarked(ret.v.data.v[i]) <=> Degraded
        /\ Degraded => ret.v.data.v = [i \in 1..Len(ret.v.data.v) |-> MockArticle(i - 1)]

\* C12: in degraded mode (no browser automation, the browser raising, or
\* no record on the result page) search_articles returns placeholders that
\* are each marked in title and author, and no other record is marked; they
\* are the records the requested count determines, min(topk, 5) of them
\* (none for a count of zero or less).
C12_DegradedPlaceholders ==
    /\ PlaceholdersMarked
    /\ (ReturnedArticles /\ Degraded) =>
          Len(ret.v.data.v) = (IF call.topk > 0 THEN Min(call.topk, MockMax) ELSE 0)

\* The browser ran and showed cards, none of the requested ones with a
\* title, and the call asked for more than five: five marked placeholders.
C12_Witness ==
    /\ ReturnedArticles /\ playwright
    /\ src # NoSource /\ ~src.raised /\ src.cards # <<>>
    /\ call.topk > MockMax
    /\ Len(ret.v.data.v) = MockMax
    /\ \A i \in 1..Len(ret.v.data.v) : IsMarked(ret.v.data.v[i])

InDanmaku == call.op = "get_danmaku"

IsEndpoint(q, ep) == q.ep = ep
RequestsTo(ep) == Len(SelectSeq(netlog, LAMBDA q : IsEndpoint(q, ep)))

\* The cid of the first page in the answer of the video-info lookup, or
\* None when the answer carries none.
LookedUpCid ==
    IF src = NoSource THEN PyNone
    ELSE LET video_data == DictGet(src.body.d, "data", EmptyDict)
             pages == DictGet(video_data, "pages", <<>>)
         IN IF pages = <<>> THEN PyNone ELSE pages[1].cid

\* With a cid supplied there is no video-info lookup and the returned cid
\* is the supplied one; without one the lookup comes before the danmaku
\* request, and a failed lookup ends the call in an error envelope with no
\* danmaku request.
DanmakuLookupOrder ==
    (ReturnedEnvelope /\ InDanmaku) =>
        IF Truthy(call.cid)
        THEN /\ RequestsTo("view") = 0
             /\ ret.v.success => ret.v.data.v.cid = call.cid
        ELSE /\ RequestsTo("dm/list.so") = 1 =>
                  (Len(netlog) = 2 /\ netlog[1].ep = "view" /\ netlog[1].ok)
             /\ (RequestsTo("view") = 0 \/ ~netlog[1].ok) =>
                  (~ret.v.success /\ RequestsTo("dm/list.so") = 0)

\* The lookup of get_danmaku was refused and the text of the exception
\* names a connection object whose address spells 404, or 403: the error
\* says the video is missing, or denied.
RefusedLookupTakenForStatus ==
    /\ ReturnedEnvelope /\ InDanmaku /\ src # NoSource /\ src.net = "refused"
    /\ \/ src.at = AddressWith404 /\ ret.v.error = <<"no_video_info", ": ">> \o MsgVideoMissing
       \/ src.at = AddressWith403 /\ ret.v.error = <<"no_video_info", ": ">> \o MsgVideoDenied

\* The lookup of get_danmaku was refused and the text of the exception
\* names no address: the error carries that text.
RefusedLookupWithoutAddress ==
    /\ ReturnedEnvelope /\ InDanmaku /\ src # NoSource /\ src = Refused(NoAddress)
    /\ Contains(ret.v.error, "[Errno 111] Connection refused\"))")
    /\ ~Contains(ret.v.error, " object at ")

\* C13 as stated: with a cid supplied, get_danmaku makes no video-info
\* lookup and returns the supplied cid; without one it looks the video up
\* before the danmaku request, a failed lookup ends the call in an error
\* envelope with no danmaku request, and after a successful lookup the cid
\* used is the one of the video info, the placeholder only when the video
\* info has none.
C13_DanmakuCid ==
    /\ DanmakuLookupOrder
    /\ (ReturnedEnvelope /\ InDanmaku /\ ~Truthy(call.cid) /\ ret.v.success) =>
          ret.v.data.v.cid =
              (IF LookedUpCid = PyNone THEN PlaceholderCid ELSE LookedUpCid)

\* get_video_info or search_videos was called with the API method and its
\* API request failed (network failure, error status, non-zero code).
ApiCallFailed ==
    /\ call.op \in {"get_video_info", "search_videos"}
    /\ call.method = "api"
    /\ netlog # <<>>
    /\ netlog[1].ep \in {"view", "search/all/v2"}
    /\ ~netlog[1].ok

\* C14 as stated: when the API call of get_video_info or search_videos is
\* unavailable or blocked, the operation goes on to the HTML script path
\* (a request for the page follows) and returns that path's result.
C14_FallbackToScript ==
    (ReturnedEnvelope /\ ApiCallFailed) =>
        /\ Len(netlog) = 2
        /\ netlog[2].ep \in {"video page", "search page"}
        /\ DictGet(ret.v, "method", "none") = "script" \/ ~netlog[2].ok

\* The position in the content segment of the block an entry came from.
PagePosition(entry) ==
    IF entry.type = "text" THEN entry.content[2]
    ELSE CHOOSE n \in 1..MaxItems :
           \E b \in Blocks(n) : b.tag \in {"pic", "img"} /\ b.url = entry.url

ReturnedArticle ==
    /\ ReturnedEnvelope /\ call.op = "get_article" /\ ret.v.success
    /\ "content_structure" \in DOMAIN ret.v.data.v

\* C15 as stated: of any two entries of content_structure, the one whose
\* block comes first in the page comes first in the list.
C15_ContentOrderPreserved ==
    ReturnedArticle =>
        LET structure == ret.v.data.v.content_structure
        IN \A i, j \in 1..Len(structure) :
             i < j => PagePosition(structure[i]) < PagePosition(structure[j])

\* get_video_info by the script path has fetched the page with a success
\* status, and it is not a not-found page.
ScriptPageFetched ==
    /\ ReturnedEnvelope
    /\ call.op = "get_video_info" /\ call.method = "script"
    /\ netlog # <<>> /\ netlog[1].ok
    /\ ~src.body.is404

TitleOrOwnerExtracted ==
    src.body.title_tag # <<>> \/ src.body.json_title # <<>> \/ src.body.owner

\* The counters of the page all came out as zero.
CountersZero(video_info) ==
    \A f \in {"view", "danmaku", "like", "coin", "favorite", "share"} : video_info[f] = 0

\* The fields read from the page's embedded JSON all came out empty.
JsonFieldsEmpty(video_info) ==
    /\ video_info.desc = <<>> /\ video_info.pic = <<>> /\ video_info.tname = <<>>
    /\ video_info.pubdate = 0 /\ video_info.duration = 0 /\ video_info.reply = 0
    /\ video_info.tags = <<>>

\* The fields of a returned record have the zero or empty value wherever
\* the page gave nothing to extract.
MissingFieldsDefault(video_info) ==
    /\ parse_number_with_unit(src.body.stat_text) = 0 => CountersZero(video_info)
    /\ (~src.body.rest /\ src.body.numbers = NoNumbers) => JsonFieldsEmpty(video_info)
    /\ \A f \in DOMAIN src.body.numbers : src.body.numbers[f] = <<>> => video_info[f] = 0
    /\ ~src.body.owner => (video_info.owner_name = <<>> /\ video_info.owner_mid = <<>>)

\* C16 as stated: once the page is fetched and is not a not-found page, the
\* script path of get_video_info succeeds exactly when a title or an owner
\* name was extracted; a counter that is missing or not a number is 0, a
\* field missing from the embedded JSON is 0, empty text or an empty list,
\* and no field whose extraction fails makes the call fail.
C16_ScriptSuccessIffTitleOrOwner ==
    ScriptPageFetched =>
        /\ ret.v.success <=> TitleOrOwnerExtracted
        /\ ret.v.success => MissingFieldsDefault(ret.v.data.v)

\* int() converts every run of digits the page has for reply, pubdate and
\* duration.
NumbersConvert ==
    \A f \in DOMAIN src.body.numbers : Len(src.body.numbers[f]) <= IntMaxStrDigits

\* What holds: the call succeeds exactly when a title or an owner name was
\* extracted and int() converted every run of digits; a run it refuses
\* fails the call with the text of the ValueError, whatever else the page
\* holds.
ScriptSuccessWhenNumbersConvert ==
    ScriptPageFetched =>
        /\ ret.v.success <=> (TitleOrOwnerExtracted /\ NumbersConvert)
        /\ ret.v.success => MissingFieldsDefault(ret.v.data.v)
        /\ ~NumbersConvert =>
              ret.v = [success |-> FALSE, error |-> IntTooLongText(IntMaxStrDigits + 1),
                       data |-> PyNone]

\* A page with a title whose reply count has more digits than int()
\* converts: the call has failed.
TitleButNumberRefused ==
    /\ ScriptPageFetched
    /\ src.body.title_tag # <<>> /\ src.body.owner
    /\ Len(src.body.numbers.reply) > IntMaxStrDigits
    /\ ~ret.v.success

\* A page with an owner name and nothing else, its counter text rejected
\* by float(): the call succeeds with an empty title and zero counters.
OwnerAloneSucceeds ==
    /\ ScriptPageFetched
    /\ src.body.owner /\ src.body.title_tag = <<>> /\ src.body.json_title = <<>>
    /\ ~src.body.rest /\ src.body.stat_text = <<"1", ".", "2", ".", "3">>
    /\ ret.v.success
    /\ ret.v.data.v.title = <<>>
    /\ CountersZero(ret.v.data.v) /\ JsonFieldsEmpty(ret.v.data.v)

\* The primary-comment fetch has returned.
MainFetchReturned == InComments /\ pc # "gc_main"

\* C17: the synchronous mode issues at most 3 primary-comment page requests
\* and returns at most min(topk, 100) comments; the cooperative mode has no
\* page bound: when every page arrives it returns the first
\* min(topk, total) comments, however many pages that takes.
C17_PageBoundSyncOnly ==
    /\ (InComments /\ mode = "sync") =>
          /\ Len(MainRequests) <= FastMaxPages
          /\ MainFetchReturned =>
                Len(main_comments) <= Max(0, Min(call.topk, SyncTopkCap))
    /\ (EveryPageArrived /\ mode = "async") =>
          FetchedContents = FirstItems(Min(call.topk, src.total))

\* The page bound has cut the synchronous fetch short: three requests, and
\* fewer comments than were asked for and are there.
C17_Witness ==
    /\ EveryPageArrived /\ mode = "sync"
    /\ Len(MainRequests) = FastMaxPages
    /\ Len(main_comments) < Min(call.topk, src.total)

\* The synchronous mode, asked for more than 100 comments of a source that
\* holds more, has fetched 100 of them.
C17_WitnessTopkCap ==
    /\ EveryPageArrived /\ mode = "sync"
    /\ call.topk > SyncTopkCap /\ src.total > SyncTopkCap
    /\ Len(main_comments) = SyncTopkCap

\* The cooperative mode has fetched four comments over four pages.
C17_WitnessAsyncFourPages ==
    /\ EveryPageArrived /\ mode = "async"
    /\ Len(MainRequests) > FastMaxPages
    /\ Len(main_comments) = call.topk

\* The retrieval path an operation runs: the one its method argument names
\* for get_video_info and search_videos, the script path for the article
\* operations, the API path for comments and danmaku.
ExecutedPath ==
    CASE call.op \in {"get_video_info", "search_videos"} -> call.method
      [] call.op \in {"search_articles", "get_article"} -> "script"
      [] OTHER -> "api"

NamesExecutedPath(envelope) ==
    /\ "method" \in DOMAIN envelope
    /\ envelope.method \in {"api", "script"}
    /\ envelope.method = ExecutedPath

\* C18 as stated: every envelope an operation returns, success or error,
\* and every envelope the tool wrapper makes of it, carries a method field
\* that is "api" or "script" and names the path the call ran.
C18_MethodOnEveryEnvelope ==
    /\ ReturnedEnvelope => NamesExecutedPath(ret.v)
    /\ pc = "done" => NamesExecutedPath(tool.v)

\* Success envelopes do carry the method of the path that ran.
SuccessEnvelopeNamesPath ==
    /\ (ReturnedEnvelope /\ ret.v.success) => NamesExecutedPath(ret.v)
    /\ (pc = "done" /\ tool.v.success) => NamesExecutedPath(tool.v)

\* The call found an event loop running: get_comments then takes its
\* synchronous version on the calling thread (mode "sync"), and
\* search_articles hands asyncio.run to a worker thread (mode "thread").
RunningLoop == mode \in {"sync", "thread"}
DelegatedToWorker == mode = "thread"

AllRequestsOk == \A i \in 1..Len(netlog) : netlog[i].ok

\* The envelope _get_comments_async gives without replies when every request
\* is answered: the first min(topk, total) comments of the source.
CooperativeCommentsEnvelope ==
    ResponseFormatter_success(
        PyList([i \in 1..Max(0, Min(call.topk, src.total)) |->
                  CommentData(SourceComment(src, i), <<>>)]), "api")

\* C19 as stated: called with an event loop running, get_comments and
\* search_articles hand the cooperative call to a worker context and return
\* the envelope the cooperative call produces.
C19_RunningLoopDelegates ==
    (ReturnedEnvelope /\ RunningLoop /\ call.op \in {"get_comments", "search_articles"}) =>
        /\ DelegatedToWorker
        /\ call.op = "search_articles" => ret.v = _async_search_articles(src, call.topk)
        /\ (InComments /\ AllRequestsOk /\ ~call.include_replies) =>
              ret.v = CooperativeCommentsEnvelope

\* The part that holds: search_articles returns the cooperative call's
\* envelope from a worker thread.
SearchArticlesDelegates ==
    (ReturnedEnvelope /\ RunningLoop /\ call.op = "search_articles") =>
        /\ DelegatedToWorker
        /\ ret.v = _async_search_articles(src, call.topk)

\* The synchronous version's envelope differs from the cooperative one.
SyncEnvelopeIsCooperative ==
    (ReturnedEnvelope /\ mode = "sync" /\ InComments /\ AllRequestsOk
       /\ ~call.include_replies) => ret.v = CooperativeCommentsEnvelope

\* C20 as stated: is_valid_bvid accepts exactly 'BV' followed by 10 ASCII
\* alphanumerics and nothing else, is_valid_cv_id accepts exactly the
\* non-empty strings of the digits 0-9, and every other value is rejected.
C20_ValidatorsExact ==
    /\ call.op \in {"get_video_info", "get_danmaku", "get_comments"} =>
          (is_valid_bvid(call.bvid) <=> WellFormedBvid(call.bvid))
    /\ call.op = "get_article" =>
          (is_valid_cv_id(call.cv_id) <=> WellFormedCvId(call.cv_id))

\* What does hold: every well-formed identifier is accepted, and every
\* value that is not a string is rejected.
ValidatorsAcceptWellFormed ==
    /\ call.op \in {"get_video_info", "get_danmaku", "get_comments"} =>
          /\ WellFormedBvid(call.bvid) => is_valid_bvid(call.bvid)
          /\ call.bvid.t # "str" => ~is_valid_bvid(call.bvid)
    /\ call.op = "get_article" =>
          /\ WellFormedCvId(call.cv_id) => is_valid_cv_id(call.cv_id)
          /\ call.cv_id.t # "str" => ~is_valid_cv_id(call.cv_id)

\* The counter text is <decimal number><unit>: digits, at most one dot
\* among them, and then nothing or one unit of the table.
IsNumberWithUnit(text) ==
    /\ text # <<>>
    /\ LET n == IF text[Len(text)] \in DOMAIN Multipliers THEN Len(text) - 1 ELSE Len(text)
       IN /\ \A k \in 1..n : text[k] \in NumberChars
          /\ Cardinality({ k \in 1..n : text[k] = "." }) <= 1
          /\ \E k \in 1..n : text[k] \in DecimalDigits

\* The number of such a text times its unit's multiplier, truncated.
ExactProduct(text) ==
    LET n == IF text[Len(text)] \in DOMAIN Multipliers THEN Len(text) - 1 ELSE Len(text)
        unit == IF n < Len(text) THEN Multipliers[text[Len(text)]] ELSE 1
        number_str == SubSeq(text, 1, n)
        dots == { k \in 1..n : number_str[k] = "." }
        decimals == IF dots = {} THEN 0 ELSE n - (CHOOSE k \in dots : TRUE)
    IN (DigitsValue(SelectSeq(number_str, IsDigit)) * unit) \div Pow10(decimals)

\* The counter text has no number to parse: it is empty, has no digit, or
\* is a run of digits and dots that is no number.
HasNoNumber(text) ==
    \/ \A k \in 1..Len(text) : text[k] \notin DecimalDigits
    \/ /\ \A k \in 1..Len(text) : text[k] \in NumberChars
       /\ Cardinality({ k \in 1..Len(text) : text[k] = "." }) > 1

\* The script path of get_video_info has returned a record whose view
\* counter parse_number_with_unit made of the page's counter text.
CounterParsed == ScriptPageFetched /\ ret.v.success

\* C21 as stated: parse_number_with_unit gives the number times the unit's
\* multiplier, truncated to an integer, for a text <decimal number><unit>
\* (multiplier 1 without a unit), and 0 for a text with no number to parse.
C21_NumberWithUnit ==
    CounterParsed =>
        /\ IsNumberWithUnit(src.body.stat_text) =>
              ret.v.data.v.view = ExactProduct(src.body.stat_text)
        /\ HasNoNumber(src.body.stat_text) => ret.v.data.v.view = 0

\* What holds: the same for every text whose product of doubles is exact;
\* the others, "2.3" and "4.35" times 100, give one less.
NumberWithUnitWhenExact ==
    CounterParsed =>
        /\ IsNumberWithUnit(src.body.stat_text) =>
              IF src.body.stat_text \in {<<"2", ".", "3", "bai">>, <<"4", ".", "3", "5", "bai">>}
              THEN ret.v.data.v.view = ExactProduct(src.body.stat_text) - 1
              ELSE ret.v.data.v.view = ExactProduct(src.body.stat_text)
        /\ HasNoNumber(src.body.stat_text) => ret.v.data.v.view = 0


(***************************************************************************)
(* C22: the lookup table of the two transports.                            *)
(***************************************************************************)
\* search_videos by the API has returned and its request was answered with
\* a JSON object that carries a status code.
AnsweredWithCode ==
    /\ pc = "done" /\ call.op = "search_videos" /\ call.method = "api"
    /\ src.net = "http" /\ src.status = 200 /\ src.body.json = "dict"
    /\ "code" \in DOMAIN src.body.d

\* The outcome r of a transport for a JSON object data follows the table
\* the claim describes.
MappedThroughTable(r, data) ==
    LET code == data.code
        Says(text) == IsRaise(r) /\ r.type = "BilibiliError" /\ Contains(r.msg, text)
    IN /\ code = PyInt(0) => r = Ret(data)
       /\ code = PyInt(-404) => Says("video missing or deleted")
       /\ code = PyInt(-403) => Says("access denied, video may be private")
       /\ code = PyInt(-101) => Says("not logged in")
       /\ code \in {PyInt(-799), PyInt(-1403)} => Says(PyText(code)) /\ Says(data.message[1])

\* What holds of the blocking transport: codes -404 and -403 give their
\* message, a code outside its table (-101 is outside) the generic message
\* with the code and the platform's message, code 0 the body; and the error
\* of the envelope is the transport's message.
SyncTableAsCoded ==
    AnsweredWithCode =>
        LET r == _make_request(SearchApiUrl, src, DefaultTimeout)
            code == src.body.d.code
        IN /\ code = PyInt(0) => r = Ret(src.body.d)
           /\ code # PyInt(0) => IsRaise(r) /\ r.type = "BilibiliError"
                                  /\ ~ret.v.success /\ ret.v.error = r.msg
           /\ code = PyInt(-404) => r.msg = <<"video missing or deleted">>
           /\ code = PyInt(-403) => r.msg = <<"access denied, video may be private">>
           /\ code \in {PyInt(-101), PyInt(-102), PyInt(-799), PyInt(-1403)} =>
                 r.msg = <<"api_error", " (", PyText(code), "): ">> \o src.body.d.message

\* What holds of the non-blocking transport: code 0 gives the body, every
\* other code leaves the function as a TypeError without the message.
AsyncTableAsCoded ==
    AnsweredWithCode =>
        LET r == _make_request_async(SearchApiUrl, src)
        IN IF src.body.d.code = PyInt(0) THEN r = Ret(src.body.d)
           ELSE IsRaise(r) /\ r.type = "TypeError" /\ r.msg = MsgCatchNonException

\* C22 as stated: both transports map the status code of the answer through
\* the same table: -404, -403 and -101 give their friendly message, an
\* unmapped code a generic message with the code and the platform's message,
\* and code 0 returns the parsed body unchanged.
C22_SameLookupTable ==
    AnsweredWithCode =>
        /\ MappedThroughTable(_make_request(SearchApiUrl, src, DefaultTimeout), src.body.d)
        /\ MappedThroughTable(_make_request_async(SearchApiUrl, src), src.body.d)


(***************************************************************************)
(* C23: the pause before a request.                                        *)
(***************************************************************************)
\* What holds: every request of the transports and every page fetch of the
\* script paths of videos and articles is sent after a pause that depends
\* on the request site alone; the requests sent without one are the danmaku
\* request and the browser's navigation of the article search.
DelayBeforeTransportAndPageRequests ==
    \A i \in 1..Len(netlog) :
        /\ netlog[i].delay \in {0, AsyncRequestDelay, SyncRequestDelay, SearchPageDelay}
        /\ netlog[i].delay = 0 <=> netlog[i].ep \in {"dm/list.so", "article search page"}

\* A call of get_danmaku with a cid sends its only request without any
\* pause in the whole call.
DanmakuSentWithoutDelay ==
    /\ pc = "done" /\ call.op = "get_danmaku" /\ Truthy(call.cid)
    /\ Len(netlog) = 1 /\ netlog[1].ep = "dm/list.so" /\ netlog[1].delay = 0

\* C23 as stated: every request an operation sends (API calls, page fetches
\* of the script paths, the danmaku request) is preceded, in the same call,
\* by a fixed pause taken before the request is sent.
C23_DelayBeforeEveryRequest ==
    \A i \in 1..Len(netlog) : netlog[i].delay > 0


(***************************************************************************)
(* C24, C28: the script path of video search.                              *)
(***************************************************************************)
\* search_videos by the script path has returned the records it parsed from
\* the search page it was served.
ScriptSearchParsed ==
    /\ pc = "done" /\ call.op = "search_videos" /\ call.method = "script"
    /\ src # NoSource /\ src.net = "http" /\ src.status = 200
    /\ ret.v.success

\* The candidates the loop looks at: the first min(topk, n) of the page.
Looked == 1..Min(call.topk, Len(src.body.cands))
ReturnedIds == [j \in 1..Len(ret.v.data.v) |-> ret.v.data.v[j].bvid]

\* The positions of a set in ascending order.
Ascending(S) ==
    CHOOSE f \in [1..Cardinality(S) -> S] : \A a, b \in 1..Cardinality(S) : a < b => f[a] < f[b]

\* The records are in the document order of their candidates, all of which
\* the loop looked at: S is a set of positions the returned records can
\* have come from, one after the other (an id may be on the page twice).
InDocumentOrder(S) ==
    /\ Cardinality(S) = Len(ReturnedIds)
    /\ \A j \in 1..Len(ReturnedIds) : src.body.cands[Ascending(S)[j]].bvid = ReturnedIds[j]

\* C24 as stated: candidates are processed in document order, and a
\* candidate is dropped only when it misses both its title and its id: one
\* that has an id is returned, whether or not its title could be extracted.
C24_DroppedOnlyWithoutTitleAndId ==
    ScriptSearchParsed =>
        \E S \in SUBSET Looked :
            /\ InDocumentOrder(S)
            /\ \A i \in Looked : src.body.cands[i].bvid # <<>> => i \in S

\* C24 as amended: candidates are processed in document order; a candidate
\* for which a block was scoped is returned exactly when a title could be
\* extracted from that block, and every returned record carries a title and
\* an id.
C24_ReturnedWithTitleAndId ==
    ScriptSearchParsed =>
        /\ \E S \in SUBSET Looked :
              /\ InDocumentOrder(S)
              /\ \A i \in Looked : ContextMatch(src.body.cands, i).found =>
                    (i \in S <=> ContextMatch(src.body.cands, i).title # <<>>)
        /\ \A j \in 1..Len(ret.v.data.v) :
              ret.v.data.v[j].title # <<>> /\ ret.v.data.v[j].bvid # <<>>

\* A page whose first candidate has a block without a title and whose
\* second has a title: the second alone is returned.
C24_Witness ==
    /\ ScriptSearchParsed
    /\ 2 \in Looked
    /\ src.body.cands[1].block.found /\ src.body.cands[1].block.title = <<>>
    /\ src.body.cands[2].block.found /\ src.body.cands[2].block.title # <<>>
    /\ ReturnedIds = << src.body.cands[2].bvid >>


(***************************************************************************)
(* C25: the result shapes of the API search.                               *)
(***************************************************************************)
\* search_videos by the API has returned the records of the result list it
\* was served.
ApiSearchProcessed ==
    /\ pc = "done" /\ call.op = "search_videos" /\ call.method = "api"
    /\ src.net = "http" /\ src.status = 200 /\ src.body.json = "dict"
    /\ "data" \in DOMAIN src.body.d /\ IsDict(src.body.d.data)
    /\ "result" \in DOMAIN src.body.d.data

ServedList == src.body.d.data.result
IsBareItem(e) == IsDict(e) /\ "data" \notin DOMAIN e
IsWrapper(e) == IsDict(e) /\ "data" \in DOMAIN e
\* The result type of a wrapper; one that names none counts as the
\* requested type.
TypeOfWrapper(e) == IF "result_type" \in DOMAIN e THEN e.result_type ELSE "video"

\* The item objects directly under the wrappers of the given types.
WrappedItems(types) ==
    { ServedList[i].data : i \in { k \in 1..Len(ServedList) :
          IsWrapper(ServedList[k]) /\ TypeOfWrapper(ServedList[k]) \in types
          /\ IsDict(ServedList[k].data) } }
    \cup UNION { { ServedList[i].data.v[j] :
                     j \in { k \in 1..Len(ServedList[i].data.v) :
                               IsDict(ServedList[i].data.v[k]) } } :
                 i \in { k \in 1..Len(ServedList) :
                           IsWrapper(ServedList[k]) /\ TypeOfWrapper(ServedList[k]) \in types
                           /\ IsList(ServedList[k].data) } }
BareItems == { ServedList[i] : i \in { k \in 1..Len(ServedList) : IsBareItem(ServedList[k]) } }

RecordsOf(items) == { _extract_content_data(e, "video") : e \in items }
ReturnedRecords == { ret.v.data.v[j] : j \in 1..Len(ret.v.data.v) }

\* C25: over bare items, wrappers with an object and wrappers with a list,
\* a record is returned only if it comes from a bare item or from a wrapper
\* of the requested type; no entry under a wrapper of another type appears
\* in the output; entries that are no objects are skipped; the records
\* returned number the requested count, or all there are if fewer.
C25_OnlyRequestedResultType ==
    ApiSearchProcessed =>
        /\ ret.v.success
        /\ ReturnedRecords \subseteq RecordsOf(BareItems \cup WrappedItems({"video"}))
        /\ ReturnedRecords \cap RecordsOf(WrappedItems({"article"})) = {}
        /\ Len(ret.v.data.v) =
              Min(Max(call.topk, 0), Cardinality(BareItems \cup WrappedItems({"video"})))

\* A served list with a wrapper of another type, a wrapped list that holds
\* an entry that is no object, and a bare item; records were returned.
C25_Witness ==
    /\ ApiSearchProcessed
    /\ \E i, j, k \in 1..Len(ServedList) :
          /\ IsWrapper(ServedList[i]) /\ TypeOfWrapper(ServedList[i]) = "article"
          /\ IsWrapper(ServedList[j]) /\ TypeOfWrapper(ServedList[j]) = "video"
               /\ IsList(ServedList[j].data)
          /\ IsBareItem(ServedList[k])
    /\ Len(ret.v.data.v) >= 3


(***************************************************************************)
(* C26: the page loops end.                                                *)
(***************************************************************************)
InCommentsCall == call.op = "get_comments"

\* The page requests the loops may send: the primary-comment loop topk in
\* the cooperative mode and 3 (or topk, if less) in the synchronous mode,
\* a reply loop max_replies.
MainRequestBound ==
    IF mode = "sync" THEN Min(FastMaxPages, Max(0, call.topk)) ELSE Max(0, call.topk)
ReplyRequestBound == Max(0, MaxRepliesPerComment("async", call.reply_count))

PageRequestsBounded ==
    InComments =>
        /\ Len(MainRequests) <= MainRequestBound
        /\ \A i \in 1..Len(tasks) : tasks[i].reqs <= ReplyRequestBound

\* The steps a reply coroutine has left at most: three for every page
\* request it may still send (the request, its answer, the end of the
\* sleep), two if a request of its is in flight, one if it sleeps.
TaskStepsLeft(t) ==
    CASE t.st = "done" -> 0
      [] t.st = "inflight" -> 2 + 3 * (ReplyRequestBound - t.reqs)
      [] t.st = "paused" -> 1 + 3 * (ReplyRequestBound - t.reqs)
      [] OTHER -> 3 * (ReplyRequestBound - t.reqs)

RECURSIVE SumTaskSteps(_)
SumTaskSteps(ts) == IF ts = <<>> THEN 0 ELSE TaskStepsLeft(Head(ts)) + SumTaskSteps(Tail(ts))

\* The steps all reply fetches can take for the comments one call keeps.
SubStepsCap == Max(0, call.topk) * Max(1, 3 * ReplyRequestBound)

\* The steps a call of get_comments has left at most.
StepsLeft ==
    CASE pc = "done" -> 0
      [] pc = "returned" -> 1
      [] pc = "gc_gather" -> 2 + SumTaskSteps(tasks)
      [] pc = "gc_sub_sync" -> 2 + Len(main_comments) - Len(processed)
      [] pc = "gc_main" -> 3 + SubStepsCap + MainRequestBound - Len(MainRequests)
      [] OTHER -> 4 + SubStepsCap + MainRequestBound

\* A call that has not returned to its caller can take a step.
NeverStuck == (InCommentsCall /\ pc # "done") => ENABLED Next

\* C26: the primary-comment loop issues at most topk page requests in the
\* cooperative mode and at most 3 in the synchronous mode, each reply loop
\* at most max_replies, whatever the source answers; every step of a call of
\* get_comments lowers the number of steps it has left, a call that has not
\* ended can take a step, and it ends with an envelope.
C26_PageLoopsTerminate ==
    /\ [](PageRequestsBounded /\ NeverStuck)
    /\ [](InCommentsCall => StepsLeft >= 0 /\ (pc = "done" => ret.k = "ret"))
    /\ [][InCommentsCall => StepsLeft' < StepsLeft]_vars

\* The cooperative loop has sent as many page requests as comments were
\* asked for, each answered with a page that was not empty, and the call
\* has returned.
C26_WitnessMainLoop ==
    /\ InComments /\ mode = "async" /\ pc = "done"
    /\ call.topk > FastMaxPages /\ Len(MainRequests) = call.topk
    /\ \A i \in 1..Len(MainRequests) : MainRequests[i].ok
    /\ Len(main_comments) = call.topk

\* A reply loop has sent max_replies page requests, none answered with an
\* empty page, and the call has returned.
C26_WitnessReplyLoop ==
    /\ InComments /\ mode = "async" /\ pc = "done"
    /\ \E i \in 1..Len(tasks) :
          /\ tasks[i].reqs = MaxRepliesPerComment("async", call.reply_count)
          /\ tasks[i].reqs > 1
          /\ Len(tasks[i].replies) = tasks[i].reqs

\* A reply coroutine sleeps at the end of its loop body holding every
\* reply it was asked for, while another coroutine awaits an answer.
PausedBesideInflight ==
    /\ pc = "gc_gather"
    /\ \E i, j \in 1..Len(tasks) :
          /\ tasks[i].st = "paused"
          /\ Len(tasks[i].replies) >= MaxRepliesPerComment(mode, call.reply_count)
          /\ tasks[j].st = "inflight"

\* A request of the primary-comment loop has failed and the call has
\* returned an envelope.
C26_WitnessFailingSource ==
    /\ InComments /\ pc = "done" /\ ret.k = "ret"
    /\ MainRequests # <<>> /\ ~MainRequests[Len(MainRequests)].ok


(***************************************************************************)
(* C27: the cooperative mode when no comment has replies to fetch.         *)
(***************************************************************************)
\* The cooperative mode has returned from a call with include_replies whose
\* primary comments were fetched and none of which has replies to fetch.
ReturnedWithoutSubFetch ==
    /\ InComments /\ mode = "async" /\ pc = "done" /\ call.include_replies
    /\ main_comments # <<>>
    /\ \A p \in 1..Len(main_comments) : ~NeedsSubFetch(main_comments[p])

\* What the code does there: no coroutine was started and the call returns
\* an error envelope with the message of the unassigned reply_map.
NoSubFetchIsError ==
    ReturnedWithoutSubFetch =>
        /\ tasks = <<>>
        /\ ret.k = "ret" /\ ~ret.v.success
        /\ ret.v.error = AssembleWithoutTasks(main_comments).msg
        /\ ret.v.data = PyList(<<>>)

\* C27 as stated: in the cooperative mode with include_replies, when primary
\* comments were fetched and none has replies to fetch, the call returns a
\* success envelope that lists every primary comment with an empty list of
\* replies.
C27_NoRepliesStillSuccess ==
    ReturnedWithoutSubFetch =>
        /\ ret.k = "ret" /\ ret.v.success
        /\ ret.v.data = PyList([p \in 1..Len(main_comments) |->
                                   CommentData(main_comments[p], <<>>)])


\* The fields of a returned record are those of the block b.
FieldsFrom(r, b) ==
    /\ b.found
    /\ r.title = b.title /\ r.author = b.author /\ r.play = b.play
    /\ r.video_review = b.danmaku /\ r.duration = b.duration
    /\ r.pic = b.pic /\ r.pubdate = b.pubdate

\* A candidate for which no block could be scoped (it has none and no later
\* candidate has one) was returned with the fields of the candidate
\* processed before it.
StaleFieldsReturned ==
    /\ ScriptSearchParsed
    /\ \E S \in SUBSET Looked :
         /\ InDocumentOrder(S)
         /\ \E j \in 1..Len(ReturnedIds) :
              LET i == Ascending(S)[j]
              IN /\ i > 1
                 /\ ~ContextMatch(src.body.cands, i).found
                 /\ FieldsFrom(ret.v.data.v[j], src.body.cands[i - 1].block)

\* C28 as stated: the title, author, play count, danmaku count, duration,
\* cover and publish date of every returned record are extracted from the
\* block scoped to the record's own id; a candidate for which no block can
\* be scoped is not returned with field values of a candidate processed
\* before it.
C28_FieldsFromOwnBlock ==
    ScriptSearchParsed =>
        \E S \in SUBSET Looked :
            /\ InDocumentOrder(S)
            /\ \A j \in 1..Len(ReturnedIds) :
                  FieldsFrom(ret.v.data.v[j], src.body.cands[Ascending(S)[j]].block)


(***************************************************************************)
(* C29: the order of the output and the replies of each comment in the     *)
(* concurrent mode.                                                        *)
(***************************************************************************)
\* The concurrent mode has returned from a call with include_replies for
\* which primary comments were fetched.
ConcurrentReturned ==
    /\ InComments /\ mode = "async" /\ pc = "done" /\ call.include_replies
    /\ main_comments # <<>>

\* The replies are those of the parent rpid and of no other.
RepliesOfParent(replies, rpid) ==
    \A j \in 1..Len(replies) : replies[j].content = SourceReply(rpid, j).message

\* The output lists the primary comments in the order they were fetched,
\* each comment a sub-fetch was issued for with the result of that
\* sub-fetch, each other comment with no replies.
ListsCommentsWithOwnReplies ==
    /\ ret.k = "ret" /\ ret.v.success
    /\ ReturnedContents = [p \in 1..Len(main_comments) |-> main_comments[p].message]
    /\ \A p \in 1..Len(main_comments) :
          IF NeedsSubFetch(main_comments[p])
          THEN \E i \in 1..Len(tasks) :
                  /\ tasks[i].rpid = main_comments[p].rpid
                  /\ ret.v.data.v[p].replies = tasks[i].result.v
                  /\ RepliesOfParent(ret.v.data.v[p].replies, main_comments[p].rpid)
          ELSE ret.v.data.v[p].replies = <<>>

\* What holds: the same, whenever at least one sub-fetch was issued.
OwnRepliesWhenGathered ==
    (ConcurrentReturned /\ tasks # <<>>) => ListsCommentsWithOwnReplies

\* Two sub-fetches ran side by side and returned different replies, next to
\* a comment without a sub-fetch; the call has returned.
GatheredSideBySide ==
    /\ ConcurrentReturned /\ ret.v.success
    /\ \E i, j \in 1..Len(tasks) :
          /\ tasks[i].result.v # <<>> /\ tasks[j].result.v # <<>>
          /\ tasks[i].result.v # tasks[j].result.v
    /\ \E p \in 1..Len(main_comments) : ~NeedsSubFetch(main_comments[p])

\* C29 as stated: in the concurrent mode, for every interleaving and order
\* of completion of the reply sub-fetches, the output lists the primary
\* comments in the order they were fetched, the replies of each comment are
\* the result of the sub-fetch issued for its own rpid, and a comment no
\* sub-fetch was issued for has an empty list of replies.
C29_OwnRepliesInOrder ==
    ConcurrentReturned => ListsCommentsWithOwnReplies


(***************************************************************************)
(* C30: the cookie file.                                                   *)
(***************************************************************************)
\* save_bilibili_cookies has written the cookie file.
CookiesSaved ==
    /\ pc = "exited" /\ call.op = "save_bilibili_cookies"
    /\ src # NoSource /\ cookie_file # NoValue

NoEmptyNameOrValue(saved) ==
    \A i \in 1..Len(saved) :
        DictGet(saved[i], "name", "") # "" /\ DictGet(saved[i], "value", "") # ""

NoDuplicateKey(saved) ==
    \A i, j \in 1..Len(saved) : i # j => CookieKey(saved[i]) # CookieKey(saved[j])

\* What holds: no saved cookie has an empty name or value, the list
\* _sanitize_cookies returns has no two cookies with the same key, the call
\* leaves its argument as it was, and a second pass changes nothing unless
\* a cookie expires within the first second of the epoch.
SanitizedAsCoded ==
    CookiesSaved =>
        /\ NoEmptyNameOrValue(cookie_file.v)
        /\ NoDuplicateKey(_sanitize_cookies(src.cookies))
        /\ src.after = src.cookies
        /\ (\A i \in 1..Len(src.cookies) :
               DictGet(src.cookies[i], "expires", 0) \notin 1..9)
             => _sanitize_cookies(_sanitize_cookies(src.cookies)) = _sanitize_cookies(src.cookies)

\* The browser held the same cookie for two domains and the file holds two
\* entries with one key.
DuplicateAfterDomainRewrite ==
    /\ CookiesSaved
    /\ Len(src.cookies) = 2
    /\ src.cookies[1] = BaseCookie("SESSDATA", "v1", ".bilibili.com")
    /\ src.cookies[2] = BaseCookie("SESSDATA", "v2", "www.bilibili.com")
    /\ Len(cookie_file.v) = 2
    /\ CookieKey(cookie_file.v[1]) = CookieKey(cookie_file.v[2])

\* A second pass of _sanitize_cookies drops an expires field that the first
\* pass had cut to 0.
SecondPassDiffers ==
    /\ CookiesSaved
    /\ _sanitize_cookies(_sanitize_cookies(src.cookies)) # _sanitize_cookies(src.cookies)

\* C30 as stated: the list save_bilibili_cookies writes to the cookie file
\* has no entry with an empty name or an empty value and no two entries with
\* the same (name, domain, path), for every list of browser cookies;
\* _sanitize_cookies is idempotent and does not modify its input.
C30_CookieFileClean ==
    CookiesSaved =>
        /\ NoEmptyNameOrValue(cookie_file.v)
        /\ NoDuplicateKey(cookie_file.v)
        /\ _sanitize_cookies(_sanitize_cookies(src.cookies)) = _sanitize_cookies(src.cookies)
        /\ src.after = src.cookies

=============================================================================
